---- MODULE Spec2Model ----
(***************************************************************************)
(* Model of the SRM damage-assessment rule engine (rules_engine.py,        *)
(* assess_damage) and of the rule seeder (seed_rules.py), both held in     *)
(* src/seed_rules.py.                                                      *)
(*                                                                         *)
(* Encoding of Python values:                                              *)
(*   - an optional value is a tuple: <<>> is None / SQL NULL / a missing   *)
(*     dict key, <<v>> is the value v;                                     *)
(*   - numbers are integers; depth/thickness ratios are in percent         *)
(*     (0.05 is 5), lengths and stations are whole units;                  *)
(*   - a dotted path "damage.type" is the tuple of its components;         *)
(*   - a JSON text column is a record [json |-> "object", doc |-> d], or   *)
(*     [json |-> "empty"] for an empty string / NULL column.               *)
(***************************************************************************)
EXTENDS Integers, Sequences, FiniteSets, TLC

VARIABLES
    rule_sets,   \* table rule_sets: sequence of rows, row i has id i
    rules,       \* table rules: sequence of rows in insertion order
    loads,       \* number of seeder runs so far (bounded by MaxLoads)
    load_out,    \* what the last seeder run printed / how it ended
    pc,          \* "idle" or "returned" (an AssessmentResult is held)
    request,     \* arguments of the last assess_damage call
    result,      \* the AssessmentResult it returned
    queried,     \* whether the call got as far as querying the store
    resolved,    \* rule_set_id it resolved (<<>> when there was none)
    candidates,  \* ids of the rows its SELECT fetched, in order
    trace,       \* per scanned row: what the loop did with it
    tx           \* the seeder's open transaction, when its run is taken
                 \* statement by statement; else how its last one ended

vars == <<rule_sets, rules, loads, load_out, pc, request, result, queried,
          resolved, candidates, trace, tx>>

\* Number of seeder runs explored.
MaxLoads == 2

None == <<>>
Some(v) == <<v>>
IsNone(o) == o = <<>>
Val(o) == o[1]

\* Python truthiness of an optional string: None and "" are falsy.
Truthy(o) == o # <<>> /\ o[1] # ""

----------------------------------------------------------------------------
(* JSON text columns *)

EmptyJson == [json |-> "empty"]

\* json.dumps(obj, separators=(",", ":"))
JsonDumps(d) == [json |-> "object", doc |-> d]

NoConditions == [requires_no_visible_crack |-> None, deny_if |-> <<>>, allow_if |-> <<>>]
NoLimits == [max_diameter_mm |-> None, max_depth_mm |-> None,
             max_depth_to_thickness_ratio |-> None]
NoActions == [disposition |-> None]

\* stored text that is no JSON text at all
MalformedJson == [json |-> "malformed"]

\* stored text of a JSON value that is no object: null, a number, a string
\* or a list (the string and the list hold no name of a limit)
JsonValue(kind) == [json |-> "value", kind |-> kind]

\* json.loads(row[col] or "{}"): an empty / NULL column reads as {}.  Of a
\* column that holds no object this is what the evaluators make of the
\* value where they do not raise: no key is found in it.
JsonLoads(col, empty) == IF col.json = "object" THEN col.doc ELSE empty

\* json.loads(row[col] or "{}") raises JSONDecodeError
LoadsRaises(col) == col.json = "malformed"

\* json.loads gave a value without .get: AttributeError where it is called
NotDict(col) == col.json = "value"

\* `"max_diameter_mm" in limits` raises TypeError: null and numbers are
\* not iterable (a string or a list answers False)
InRaises(col) == col.json = "value" /\ col.kind \in {"null", "number"}

\* assess_damage left by an exception instead of a return
Raised(exc) == [raised |-> exc]
IsRaised(out) == "raised" \in DOMAIN out

----------------------------------------------------------------------------
(* rules_engine.py: helpers *)

\* Variant: the bounds themselves are outside the range.
_within_range_exclusive(val, minv, maxv) ==
    IF val = None THEN TRUE
    ELSE IF minv # None /\ Val(val) <= Val(minv) THEN FALSE
    ELSE IF maxv # None /\ Val(val) >= Val(maxv) THEN FALSE
    ELSE TRUE

\* _within_range(val, minv, maxv)
_within_range(val, minv, maxv) ==
    IF val = None THEN TRUE
    ELSE IF minv # None /\ Val(val) < Val(minv) THEN FALSE
    ELSE IF maxv # None /\ Val(val) > Val(maxv) THEN FALSE
    ELSE TRUE

\* _get(ctx, path): walk the dotted path; a missing key or a node that is
\* not a dict gives None.  The contexts here are two levels deep.
_get(ctx, path) ==
    IF Len(path) = 2 /\ path[1] \in DOMAIN ctx /\ path[2] \in DOMAIN ctx[path[1]]
    THEN ctx[path[1]][path[2]]
    ELSE None

\* Variant: an absent value compares below every number, so "<" and "<="
\* hold for it.
check_clause_absent_low(cl, ctx) ==
    LET actual == _get(ctx, cl.field)
    IN  CASE cl.op = "==" -> actual = cl.value
          [] cl.op = "!=" -> actual # cl.value
          [] cl.op = "<=" -> actual = None \/ Val(actual) <= Val(cl.value)
          [] cl.op = "<"  -> actual = None \/ Val(actual) < Val(cl.value)
          [] cl.op = ">=" -> actual # None /\ Val(actual) >= Val(cl.value)
          [] cl.op = ">"  -> actual # None /\ Val(actual) > Val(cl.value)
          [] OTHER -> FALSE

\* check_clause(cl), the closure inside _eval_conditions
check_clause(cl, ctx) ==
    LET actual == _get(ctx, cl.field)
    IN  CASE cl.op = "==" -> actual = cl.value
          [] cl.op = "!=" -> actual # cl.value
          [] cl.op = "<=" -> actual # None /\ Val(actual) <= Val(cl.value)
          [] cl.op = "<"  -> actual # None /\ Val(actual) < Val(cl.value)
          [] cl.op = ">=" -> actual # None /\ Val(actual) >= Val(cl.value)
          [] cl.op = ">"  -> actual # None /\ Val(actual) > Val(cl.value)
          [] OTHER -> FALSE

\* least element of a non-empty set of indices (the first clause that hits)
MinOf(S) == CHOOSE i \in S : \A j \in S : i <= j

\* _eval_conditions(conditions, ctx, reasons): [ok, reasons]
_eval_conditions(conditions, ctx, reasons) ==
    LET denies == {i \in 1..Len(conditions.deny_if) :
                      check_clause(conditions.deny_if[i], ctx)}
        refuses == {i \in 1..Len(conditions.allow_if) :
                      ~check_clause(conditions.allow_if[i], ctx)}
        d == IF denies = {} THEN 0 ELSE MinOf(denies)
        a == IF refuses = {} THEN 0 ELSE MinOf(refuses)
    IN  IF conditions.requires_no_visible_crack = Some(TRUE)
           /\ _get(ctx, <<"damage", "visible_crack">>) = Some(TRUE)
        THEN [ok |-> FALSE,
              reasons |-> Append(reasons, <<"Condition failed: visible crack present.">>)]
        ELSE IF d # 0
        THEN [ok |-> FALSE,
              reasons |-> Append(reasons, <<"Denied by condition", conditions.deny_if[d]>>)]
        ELSE IF a # 0
        THEN [ok |-> FALSE,
              reasons |-> Append(reasons, <<"Allow-if condition not met", conditions.allow_if[a]>>)]
        ELSE [ok |-> TRUE, reasons |-> reasons]

\* Variant: a missing ratio is skipped, as a missing diameter or depth is.
_eval_limits_lenient(limits, ctx, reasons) ==
    LET diameter == _get(ctx, <<"damage", "diameter_mm">>)
        depth == _get(ctx, <<"damage", "depth_mm">>)
        ratio == _get(ctx, <<"damage", "depth_to_thickness_ratio">>)
        badDiameter == limits.max_diameter_mm # None /\ diameter # None
                       /\ Val(diameter) > Val(limits.max_diameter_mm)
        badDepth == limits.max_depth_mm # None /\ depth # None
                    /\ Val(depth) > Val(limits.max_depth_mm)
        badRatio == limits.max_depth_to_thickness_ratio # None /\ ratio # None
                    /\ Val(ratio) > Val(limits.max_depth_to_thickness_ratio)
        r1 == IF badDiameter
              THEN Append(reasons, <<"Diameter > limit", Val(diameter), Val(limits.max_diameter_mm)>>)
              ELSE reasons
        r2 == IF badDepth
              THEN Append(r1, <<"Depth > limit", Val(depth), Val(limits.max_depth_mm)>>)
              ELSE r1
        r3 == IF badRatio
              THEN Append(r2, <<"Ratio > limit", Val(ratio), Val(limits.max_depth_to_thickness_ratio)>>)
              ELSE r2
    IN  [ok |-> ~(badDiameter \/ badDepth \/ badRatio), reasons |-> r3]

\* Variant: the evaluation stops at the first violated limit.
_eval_limits_first_only(limits, ctx, reasons) ==
    LET all == _eval_limits_lenient(limits, ctx, reasons)
        dmg == IF "damage" \in DOMAIN ctx THEN ctx.damage ELSE [x \in {} |-> None]
        ratio == IF "depth_to_thickness_ratio" \in DOMAIN dmg
                 THEN dmg.depth_to_thickness_ratio ELSE None
        noRatio == limits.max_depth_to_thickness_ratio # None /\ ratio = None
    IN  IF ~all.ok
        THEN [ok |-> FALSE, reasons |-> SubSeq(all.reasons, 1, Len(reasons) + 1)]
        ELSE IF noRatio
        THEN [ok |-> FALSE,
              reasons |-> Append(reasons, <<"Depth/thickness ratio not provided (needed for this rule).">>)]
        ELSE all

\* Variant: a configured limit whose measurement the context lacks is a
\* violation, for the diameter and the depth as for the ratio.
_eval_limits_measure_needed(limits, ctx, reasons) ==
    LET all == _eval_limits_lenient(limits, ctx, reasons)
        missing ==
            \/ limits.max_diameter_mm # None /\ _get(ctx, <<"damage", "diameter_mm">>) = None
            \/ limits.max_depth_mm # None /\ _get(ctx, <<"damage", "depth_mm">>) = None
            \/ /\ limits.max_depth_to_thickness_ratio # None
               /\ _get(ctx, <<"damage", "depth_to_thickness_ratio">>) = None
    IN  IF missing
        THEN [ok |-> FALSE,
              reasons |-> Append(all.reasons, <<"Measurement not provided (needed for this rule).">>)]
        ELSE all

\* _eval_limits(limits, ctx, reasons): [ok, reasons]; every configured limit
\* is looked at, the reasons are appended in the order diameter, depth, ratio.
_eval_limits(limits, ctx, reasons) ==
    LET dmg == IF "damage" \in DOMAIN ctx THEN ctx.damage ELSE [x \in {} |-> None]
        dget(k) == IF k \in DOMAIN dmg THEN dmg[k] ELSE None
        diameter == dget("diameter_mm")
        depth == dget("depth_mm")
        ratio == dget("depth_to_thickness_ratio")
        badDiameter == limits.max_diameter_mm # None /\ diameter # None
                       /\ Val(diameter) > Val(limits.max_diameter_mm)
        badDepth == limits.max_depth_mm # None /\ depth # None
                    /\ Val(depth) > Val(limits.max_depth_mm)
        noRatio == limits.max_depth_to_thickness_ratio # None /\ ratio = None
        badRatio == limits.max_depth_to_thickness_ratio # None /\ ratio # None
                    /\ Val(ratio) > Val(limits.max_depth_to_thickness_ratio)
        r1 == IF badDiameter
              THEN Append(reasons, <<"Diameter > limit", Val(diameter), Val(limits.max_diameter_mm)>>)
              ELSE reasons
        r2 == IF badDepth
              THEN Append(r1, <<"Depth > limit", Val(depth), Val(limits.max_depth_mm)>>)
              ELSE r1
        r3 == IF noRatio
              THEN Append(r2, <<"Depth/thickness ratio not provided (needed for this rule).">>)
              ELSE IF badRatio
              THEN Append(r2, <<"Ratio > limit", Val(ratio), Val(limits.max_depth_to_thickness_ratio)>>)
              ELSE r2
    IN  [ok |-> ~(badDiameter \/ badDepth \/ noRatio \/ badRatio), reasons |-> r3]

----------------------------------------------------------------------------
(* rules_engine.py: assess_damage *)

ER == "ENGINEERING_REVIEW"

\* The fixed escalation result of the four early exits.
Escalate(reason, next_step) ==
    [rule_id |-> None, passed |-> FALSE, disposition |-> ER,
     severity |-> "engineering", srm_ref |-> None, reasons |-> <<reason>>,
     actions |-> [disposition |-> Some(ER), next_steps |-> <<next_step>>]]

MissingClassificationResult ==
    Escalate(<<"Missing required classification (damage.type / damage.structure / location.zone).">>,
             "Provide missing details.")

NoRuleSetResult(aircraft_family) ==
    Escalate(<<"No rule_set found for aircraft_family", aircraft_family>>,
             "Seed rules.db into repo.")

NoMatchingRulesResult ==
    Escalate(<<"No matching rules found; escalate to engineering.">>,
             "Add rules for this case.")

NoApplicableRuleResult ==
    Escalate(<<"No applicable rule after filtering; escalate to engineering.">>,
             "Capture more location detail.")

\* Variant: only None counts as missing, an empty string does not.
MissingClassificationNoneOnly(dmg_type, structure, zone) ==
    dmg_type = None \/ structure = None \/ zone = None

\* if not (dmg_type and structure and zone)
MissingClassification(dmg_type, structure, zone) ==
    ~(Truthy(dmg_type) /\ Truthy(structure) /\ Truthy(zone))

\* the largest id of a non-empty set of rows (ORDER BY id DESC LIMIT 1)
MaxId(S) == CHOOSE i \in {r.id : r \in S} : \A r \in S : r.id <= i

\* Variant: when the requested revision is not found, the latest rule set
\* of the family is used instead.
ResolveRuleSetWithFallback(rs_table, aircraft_family, revision) ==
    LET ofFamily == {rs_table[i] : i \in
                        {j \in 1..Len(rs_table) :
                            rs_table[j].aircraft_family = aircraft_family}}
        exact == {r \in ofFamily : Truthy(revision) => r.revision = Val(revision)}
    IN  IF exact # {} THEN Some(MaxId(exact))
        ELSE IF ofFamily # {} THEN Some(MaxId(ofFamily))
        ELSE None

\* Variant: ORDER BY id ASC, the oldest rule set is taken.
ResolveRuleSetOldest(rs_table, aircraft_family, revision) ==
    LET found == {rs_table[i] : i \in
                    {j \in 1..Len(rs_table) :
                        /\ rs_table[j].aircraft_family = aircraft_family
                        /\ (Truthy(revision) => rs_table[j].revision = Val(revision))}}
    IN  IF found = {} THEN None
        ELSE Some(CHOOSE i \in {r.id : r \in found} : \A r \in found : i <= r.id)

\* SELECT id FROM rule_sets WHERE aircraft_family=? [AND revision=?]
\*  ORDER BY id DESC LIMIT 1        (the revision is used when it is truthy)
ResolveRuleSet(rs_table, aircraft_family, revision) ==
    LET found == {rs_table[i] : i \in
                    {j \in 1..Len(rs_table) :
                        /\ rs_table[j].aircraft_family = aircraft_family
                        /\ (Truthy(revision) => rs_table[j].revision = Val(revision))}}
    IN  IF found = {} THEN None ELSE Some(MaxId(found))

\* side = _get(ctx, "location.side") or "ANY"
ContextSide(ctx) ==
    LET s == _get(ctx, <<"location", "side">>)
    IN  IF Truthy(s) THEN Val(s) ELSE "ANY"

\* press_i = None if press is None else (1 if press else 0)
PressI(ctx) ==
    LET press == _get(ctx, <<"location", "pressurized">>)
    IN  IF press = None THEN None ELSE Some(IF Val(press) THEN 1 ELSE 0)

\* AND (side='ANY' OR side=?)
SideMatches(rule_side, side) == rule_side = "ANY" \/ rule_side = side

\* Variant: without "OR ? IS NULL", an unstated context pressurization
\* matches only the rules that leave it unset.
PressurizedMatchesStrict(rule_pressurized, press_i) ==
    rule_pressurized = None \/ rule_pressurized = press_i

\* AND (pressurized IS NULL OR pressurized=? OR ? IS NULL)
PressurizedMatches(rule_pressurized, press_i) ==
    rule_pressurized = None \/ rule_pressurized = press_i \/ press_i = None

\* Variant: the WHERE clause without "AND enabled=1".
RowSelectedAnyEnabled(row, rule_set_id, dmg_type, zone, structure, side, press_i) ==
    /\ row.rule_set_id = rule_set_id
    /\ row.damage_type = dmg_type
    /\ row.structure_zone = zone
    /\ row.structure = structure
    /\ (row.side = "ANY" \/ row.side = side)
    /\ (row.pressurized = None \/ row.pressurized = press_i \/ press_i = None)

\* The WHERE clause of the SELECT on rules.
RowSelected(row, rule_set_id, dmg_type, zone, structure, side, press_i) ==
    /\ row.rule_set_id = rule_set_id
    /\ row.enabled = 1
    /\ row.damage_type = dmg_type
    /\ row.structure_zone = zone
    /\ row.structure = structure
    /\ SideMatches(row.side, side)
    /\ PressurizedMatches(row.pressurized, press_i)

\* ORDER BY priority DESC, id ASC
RowBefore(a, b) == a.priority > b.priority \/ (a.priority = b.priority /\ a.id < b.id)

RECURSIVE OrderRows(_)
OrderRows(S) ==
    IF S = {} THEN <<>>
    ELSE LET first == CHOOSE a \in S : \A b \in S \ {a} : RowBefore(a, b)
         IN  <<first>> \o OrderRows(S \ {first})

\* fetchall() of the SELECT: the selected rows, ordered.
SelectRows(rules_table, rule_set_id, dmg_type, zone, structure, side, press_i) ==
    OrderRows({rules_table[i] : i \in
                 {j \in 1..Len(rules_table) :
                     RowSelected(rules_table[j], rule_set_id, dmg_type, zone,
                                 structure, side, press_i)}})

\* The three range tests at the head of the loop body.
RangeKeeps(row, ctx) ==
    LET sta == _get(ctx, <<"location", "sta">>)
        wl == _get(ctx, <<"location", "wl">>)
        stringer == _get(ctx, <<"location", "stringer_num">>)
    IN  /\ _within_range(sta, row.sta_min, row.sta_max)
        /\ _within_range(wl, row.wl_min, row.wl_max)
        /\ (stringer # None =>
              /\ ~(row.stringer_min # None /\ Val(stringer) < Val(row.stringer_min))
              /\ ~(row.stringer_max # None /\ Val(stringer) > Val(row.stringer_max)))

\* x or default, for an optional string
OrElse(o, default) == IF Truthy(o) THEN Val(o) ELSE default

\* actions.get("disposition", default)
GetDisposition(actions, default) ==
    IF "disposition" \in DOMAIN actions /\ actions.disposition # None
    THEN Val(actions.disposition) ELSE default

\* The AssessmentResult returned for a row that passed its limits.
PassResult(row, actions, reasons) ==
    [rule_id |-> Some(row.id), passed |-> TRUE,
     disposition |-> GetDisposition(actions, "ALLOW_AS_IS"),
     severity |-> OrElse(row.severity, "allow"),
     srm_ref |-> row.srm_ref,
     reasons |-> IF reasons = <<>> THEN << <<"Within limits.">> >> ELSE reasons,
     actions |-> actions]

\* The AssessmentResult recorded as best_fail for a row that failed its limits.
FailResult(row, actions, reasons) ==
    [rule_id |-> Some(row.id), passed |-> FALSE,
     disposition |-> GetDisposition(actions, ER),
     severity |-> OrElse(row.severity, "engineering"),
     srm_ref |-> row.srm_ref,
     reasons |-> IF reasons = <<>> THEN << <<"Out of limits.">> >> ELSE reasons,
     actions |-> actions]

\* Variant: every failing row overwrites best_fail.
KeepLastFail(best_fail, candidate) == Some(candidate)

\* best_fail is only set while it is None
KeepBestFail(best_fail, candidate) ==
    IF best_fail = None THEN Some(candidate) ELSE best_fail

\* Variant: a row its conditions reject is kept as a failure, with the
\* reasons of the rejection.
RECURSIVE ScanRowsRejectedFails(_, _, _, _, _)
ScanRowsRejectedFails(rows, i, ctx, best_fail, tr) ==
    IF i > Len(rows)
    THEN [result |-> IF best_fail # None THEN Val(best_fail) ELSE NoApplicableRuleResult,
          trace |-> tr]
    ELSE
      LET row == rows[i]
          conditions == JsonLoads(row.conditions_json, NoConditions)
          limits == JsonLoads(row.limits_json, NoLimits)
          actions == JsonLoads(row.actions_json, NoActions)
          c == _eval_conditions(conditions, ctx, <<>>)
          l == _eval_limits(limits, ctx, c.reasons)
      IN  IF ~RangeKeeps(row, ctx)
          THEN ScanRowsRejectedFails(rows, i + 1, ctx, best_fail,
                        Append(tr, [id |-> row.id, step |-> "range"]))
          ELSE IF c.ok /\ l.ok
          THEN [result |-> PassResult(row, actions, l.reasons),
                trace |-> Append(tr, [id |-> row.id, step |-> "pass"])]
          ELSE ScanRowsRejectedFails(rows, i + 1, ctx,
                        KeepBestFail(best_fail, FailResult(row, actions, l.reasons)),
                        Append(tr, [id |-> row.id,
                                    step |-> IF c.ok THEN "fail" ELSE "conditions"]))

\* The exception the body of the loop raises for a row the range tests
\* kept, None when it raises none: the three json.loads come first, then
\* conditions.get, then the `in` tests of _eval_limits when the conditions
\* accept, then actions.get where a result is built (a PASS, or the first
\* FAIL).
RowRaises(row, ctx, best_fail) ==
    LET c == _eval_conditions(JsonLoads(row.conditions_json, NoConditions), ctx, <<>>)
        l == _eval_limits(JsonLoads(row.limits_json, NoLimits), ctx, c.reasons)
    IN  IF \/ LoadsRaises(row.conditions_json)
           \/ LoadsRaises(row.limits_json)
           \/ LoadsRaises(row.actions_json)
        THEN Some("JSONDecodeError")
        ELSE IF NotDict(row.conditions_json) THEN Some("AttributeError")
        ELSE IF ~c.ok THEN None
        ELSE IF InRaises(row.limits_json) THEN Some("TypeError")
        ELSE IF NotDict(row.actions_json) /\ (l.ok \/ best_fail = None)
        THEN Some("AttributeError")
        ELSE None

\* for row in rows: ... ; return best_fail or <no applicable rule>
\* Gives the result and, for every row the loop looked at, what it did.
RECURSIVE ScanRows(_, _, _, _, _)
ScanRows(rows, i, ctx, best_fail, tr) ==
    IF i > Len(rows)
    THEN [result |-> IF best_fail # None THEN Val(best_fail) ELSE NoApplicableRuleResult,
          trace |-> tr]
    ELSE
      LET row == rows[i]
          conditions == JsonLoads(row.conditions_json, NoConditions)
          limits == JsonLoads(row.limits_json, NoLimits)
          actions == JsonLoads(row.actions_json, NoActions)
          c == _eval_conditions(conditions, ctx, <<>>)
          l == _eval_limits(limits, ctx, c.reasons)
      IN  IF ~RangeKeeps(row, ctx)
          THEN ScanRows(rows, i + 1, ctx, best_fail,
                        Append(tr, [id |-> row.id, step |-> "range"]))
          ELSE IF RowRaises(row, ctx, best_fail) # None
          THEN [result |-> Raised(Val(RowRaises(row, ctx, best_fail))),
                trace |-> Append(tr, [id |-> row.id, step |-> "raised"])]
          ELSE IF ~c.ok
          THEN ScanRows(rows, i + 1, ctx, best_fail,
                        Append(tr, [id |-> row.id, step |-> "conditions"]))
          ELSE IF l.ok
          THEN [result |-> PassResult(row, actions, l.reasons),
                trace |-> Append(tr, [id |-> row.id, step |-> "pass"])]
          ELSE ScanRows(rows, i + 1, ctx,
                        KeepBestFail(best_fail, FailResult(row, actions, l.reasons)),
                        Append(tr, [id |-> row.id, step |-> "fail"]))

\* assess_damage from the SELECT on rules to its last return: the result,
\* the ids of the rows fetched and the trace of the scan.
FetchAndScan(rules_table, rule_set_id, ctx) ==
    LET dmg_type == _get(ctx, <<"damage", "type">>)
        structure == _get(ctx, <<"damage", "structure">>)
        zone == _get(ctx, <<"location", "zone">>)
        rows == SelectRows(rules_table, rule_set_id, Val(dmg_type), Val(zone),
                           Val(structure), ContextSide(ctx), PressI(ctx))
    IN  IF rows = <<>>
        THEN [result |-> NoMatchingRulesResult, rows |-> <<>>, trace |-> <<>>]
        ELSE LET out == ScanRows(rows, 1, ctx, None, <<>>)
             IN  [result |-> out.result,
                  rows |-> [i \in 1..Len(rows) |-> rows[i].id],
                  trace |-> out.trace]

\* assess_damage(db_path, aircraft_family, ctx, revision): the result,
\* whether the store was queried, the rule set id resolved, the ids of the
\* rows fetched and the trace of the scan.
assess_damage(rs_table, rules_table, aircraft_family, ctx, revision) ==
    LET dmg_type == _get(ctx, <<"damage", "type">>)
        structure == _get(ctx, <<"damage", "structure">>)
        zone == _get(ctx, <<"location", "zone">>)
        side == ContextSide(ctx)
        press_i == PressI(ctx)
        rs == ResolveRuleSet(rs_table, aircraft_family, revision)
        out == FetchAndScan(rules_table, Val(rs), ctx)
    IN  IF MissingClassification(dmg_type, structure, zone)
        THEN [result |-> MissingClassificationResult, queried |-> FALSE,
              resolved |-> None, rows |-> <<>>, trace |-> <<>>]
        ELSE IF rs = None
        THEN [result |-> NoRuleSetResult(aircraft_family), queried |-> TRUE,
              resolved |-> None, rows |-> <<>>, trace |-> <<>>]
        ELSE [result |-> out.result, queried |-> TRUE, resolved |-> rs,
              rows |-> out.rows, trace |-> out.trace]

----------------------------------------------------------------------------
(* seed_rules.py: load_seed, upsert_ruleset, insert_rules *)
(* A value of a seed document is <<>> for null, <<v>> for a value of the   *)
(* type load_seed asks for at its key, and <<v, t>> for a value of another *)
(* JSON type t.                                                            *)

\* typ is not None and val is not None and not isinstance(val, typ): the
\* test of _require and _optional that raises SeedError, negated
TypeOk(val) == val = None \/ Len(val) = 1

\* _optional(obj, key, typ, ctx, default): the value (None for null), or
\* the default when the key is missing.
_optional(obj, key, default) == IF key \in DOMAIN obj THEN obj[key] ELSE default

\* str(v): the text of a string value, "None" for null
Str(o) == IF o = None THEN "None" ELSE Val(o)

RequiredRuleKeys == {"damage_type", "structure", "structure_zone"}
RequiredRuleSetKeys == {"name", "aircraft_family", "revision"}

\* the keys of a rule entry that load_seed reads, each with a type
TypedRuleKeys ==
    {"enabled", "priority", "damage_type", "structure", "structure_zone",
     "zone_detail", "side", "sta_min", "sta_max", "wl_min", "wl_max",
     "stringer_min", "stringer_max", "pressurized", "material", "conditions",
     "limits", "actions", "srm_ref", "severity", "notes", "source_page"}

\* The checks of load_seed on one rule entry that raise SeedError: a
\* missing required key, a value of the wrong type (null passes that test),
\* or conditions, limits or actions that is not a dict (null is not).
RuleEntryValid(robj) ==
    /\ RequiredRuleKeys \subseteq DOMAIN robj
    /\ \A k \in DOMAIN robj \cap TypedRuleKeys : TypeOk(robj[k])
    /\ \A k \in {"conditions", "limits", "actions"} : k \in DOMAIN robj => robj[k] # None

\* The RuleSeed built from one rule entry (the body of the for loop).
RuleSeedOf(robj) ==
    LET enabled == _optional(robj, "enabled", Some(1))
        priority == _optional(robj, "priority", Some(0))
        side == _optional(robj, "side", Some("ANY"))
        severity == _optional(robj, "severity", Some("engineering"))
        conditions == Val(_optional(robj, "conditions", Some(NoConditions)))
        limits == Val(_optional(robj, "limits", Some(NoLimits)))
        actions == Val(_optional(robj, "actions", Some(NoActions)))
    IN  [enabled |-> IF enabled = None THEN 1 ELSE Val(enabled),
         priority |-> IF priority = None THEN 0 ELSE Val(priority),
         damage_type |-> Str(robj.damage_type),
         structure |-> Str(robj.structure),
         structure_zone |-> Str(robj.structure_zone),
         side |-> OrElse(side, "ANY"),
         sta_min |-> _optional(robj, "sta_min", None),
         sta_max |-> _optional(robj, "sta_max", None),
         wl_min |-> _optional(robj, "wl_min", None),
         wl_max |-> _optional(robj, "wl_max", None),
         stringer_min |-> _optional(robj, "stringer_min", None),
         stringer_max |-> _optional(robj, "stringer_max", None),
         pressurized |-> _optional(robj, "pressurized", None),
         conditions_json |-> JsonDumps(conditions),
         limits_json |-> JsonDumps(limits),
         actions_json |-> JsonDumps(
             IF actions.disposition = None
             THEN [actions EXCEPT !.disposition = Some(ER)]
             ELSE actions),
         srm_ref |-> _optional(robj, "srm_ref", None),
         severity |-> Some(OrElse(severity, "engineering"))]

\* load_seed(seed_path): [ok |-> FALSE] for a SeedError, else the
\* RuleSetSeed and the list of RuleSeed.
load_seed(data) ==
    IF /\ {"rule_set", "rules"} \subseteq DOMAIN data
       /\ RequiredRuleSetKeys \subseteq DOMAIN data.rule_set
       /\ \A k \in DOMAIN data.rule_set : TypeOk(data.rule_set[k])
       /\ \A i \in 1..Len(data.rules) : RuleEntryValid(data.rules[i])
    THEN [ok |-> TRUE,
          rs |-> [name |-> Str(data.rule_set.name),
                  aircraft_family |-> Str(data.rule_set.aircraft_family),
                  revision |-> Str(data.rule_set.revision),
                  effective_date |-> _optional(data.rule_set, "effective_date", None),
                  source |-> _optional(data.rule_set, "source", None)],
          rules |-> [i \in 1..Len(data.rules) |-> RuleSeedOf(data.rules[i])]]
    ELSE [ok |-> FALSE]

\* upsert_ruleset, the SELECT: the ids fetchone() may give.  The query has
\* no ORDER BY, so with several rows of the same (family, revision) any of
\* them may come first.
UpsertMatches(rs_table, rs) ==
    {i \in 1..Len(rs_table) :
        /\ rs_table[i].aircraft_family = rs.aircraft_family
        /\ rs_table[i].revision = rs.revision}

\* Variant: the UPDATE without its WHERE id = ?: every row takes the
\* metadata of the document.
UpdateRuleSetEveryRow(rs_table, rs, rule_set_id) ==
    [i \in 1..Len(rs_table) |->
        [rs_table[i] EXCEPT !.name = rs.name, !.effective_date = rs.effective_date,
                            !.source = rs.source]]

\* upsert_ruleset, the UPDATE of the matched row
UpdateRuleSet(rs_table, rs, rule_set_id) ==
    [rs_table EXCEPT ![rule_set_id] =
        [@ EXCEPT !.name = rs.name, !.effective_date = rs.effective_date,
                  !.source = rs.source]]

\* upsert_ruleset, the INSERT: the new row takes the next id
InsertRuleSet(rs_table, rs) ==
    Append(rs_table,
           [id |-> Len(rs_table) + 1, name |-> rs.name,
            aircraft_family |-> rs.aircraft_family, revision |-> rs.revision,
            effective_date |-> rs.effective_date, source |-> rs.source])

\* the id SQLite gives the next row of rules: one more than the largest
NextRuleId(rules_table) ==
    IF rules_table = <<>> THEN 1
    ELSE 1 + MaxId({rules_table[i] : i \in 1..Len(rules_table)})

\* Variant: the DELETE removes nothing.
WipeRulesNone(rules_table, rule_set_id) == rules_table

\* DELETE FROM rules WHERE rule_set_id = ?
WipeRules(rules_table, rule_set_id) ==
    SelectSeq(rules_table, LAMBDA r : r.rule_set_id # rule_set_id)

\* the row of one INSERT INTO rules
RuleRow(r, id, rule_set_id) ==
    [id |-> id, rule_set_id |-> rule_set_id, enabled |-> r.enabled,
     priority |-> r.priority, damage_type |-> r.damage_type,
     structure |-> r.structure, structure_zone |-> r.structure_zone,
     side |-> r.side, sta_min |-> r.sta_min, sta_max |-> r.sta_max,
     wl_min |-> r.wl_min, wl_max |-> r.wl_max,
     stringer_min |-> r.stringer_min, stringer_max |-> r.stringer_max,
     pressurized |-> r.pressurized, conditions_json |-> r.conditions_json,
     limits_json |-> r.limits_json, actions_json |-> r.actions_json,
     srm_ref |-> r.srm_ref, severity |-> r.severity]

\* insert_rules(conn, rule_set_id, rules): the table after the inserts
RECURSIVE InsertRows(_, _, _, _)
InsertRows(rules_table, rule_set_id, seeds, i) ==
    IF i > Len(seeds) THEN rules_table
    ELSE InsertRows(Append(rules_table,
                           RuleRow(seeds[i], NextRuleId(rules_table), rule_set_id)),
                    rule_set_id, seeds, i + 1)

\* SELECT COUNT(*) FROM rules WHERE rule_set_id = ?
CountRules(rules_table, rule_set_id) ==
    Cardinality({i \in 1..Len(rules_table) : rules_table[i].rule_set_id = rule_set_id})

insert_rules(rules_table, rule_set_id, seeds) ==
    LET after == InsertRows(rules_table, rule_set_id, seeds, 1)
    IN  [table |-> after, inserted |-> Len(seeds),
         total |-> CountRules(after, rule_set_id)]

----------------------------------------------------------------------------
(* The inputs explored: seed documents and assessment requests *)

Lim(diameter, depth, ratio) ==
    [max_diameter_mm |-> diameter, max_depth_mm |-> depth,
     max_depth_to_thickness_ratio |-> ratio]

Clause(field, op, value) == [field |-> field, op |-> op, value |-> value]

\* a rule entry of the classification dent / skin / fuselage
DentRule == [damage_type |-> Some("dent"), structure |-> Some("skin"),
             structure_zone |-> Some("fuselage")]

\* r extended with the keys of more (a seed entry with further keys)
With(r, more) ==
    [k \in DOMAIN r \cup DOMAIN more |-> IF k \in DOMAIN more THEN more[k] ELSE r[k]]

DocA ==
    [rule_set |-> [name |-> Some("demo"), aircraft_family |-> Some("B787"),
                   revision |-> Some("DEMO-01")],
     rules |-> <<
        With(DentRule, [priority |-> Some(10), pressurized |-> Some(1),
                        limits |-> Some(Lim(Some(50), None, Some(5))),
                        actions |-> Some([disposition |-> Some("ALLOW_AS_IS")]),
                        severity |-> Some("allow"), srm_ref |-> Some("SRM 53-10")]),
        With(DentRule, [priority |-> Some(5), side |-> Some("LH"),
                        sta_min |-> Some(2), sta_max |-> Some(3),
                        limits |-> Some(Lim(Some(80), None, None)),
                        actions |-> Some([disposition |-> Some("ALLOW_AS_IS")]),
                        severity |-> Some("allow")]),
        With(DentRule, [priority |-> Some(5), side |-> Some("RH"),
                        wl_max |-> Some(2), stringer_min |-> Some(2),
                        limits |-> Some(Lim(None, Some(2), None))])
     >>]

DocB ==
    [rule_set |-> [name |-> Some("demo-2"), aircraft_family |-> Some("B787"),
                   revision |-> Some("DEMO-02"), source |-> Some("SRM rev 2")],
     rules |-> <<
        With(DentRule, [priority |-> Some(5), sta_min |-> Some(2),
                        wl_min |-> Some(1), wl_max |-> Some(2),
                        stringer_max |-> Some(3),
                        limits |-> Some(Lim(None, None, Some(5))),
                        actions |-> Some([disposition |-> Some("ALLOW_AS_IS")]),
                        severity |-> Some("allow")]),
        With(DentRule, [structure |-> Some("frame"), priority |-> Some(7),
                        actions |-> Some([disposition |-> Some("ALLOW_AS_IS")])]),
        With(DentRule, [sta_max |-> Some(3), stringer_min |-> Some(2),
                        stringer_max |-> Some(3), side |-> Some("ANY"),
                        conditions |-> Some([NoConditions EXCEPT
                            !.deny_if = <<Clause(<<"damage", "near_fastener_row">>,
                                                 "==", Some(TRUE))>>]),
                        limits |-> Some(Lim(Some(80), Some(3), None)),
                        actions |-> Some([disposition |-> Some("REPAIR")]),
                        severity |-> Some("repair")])
     >>]

DocC ==
    [rule_set |-> [name |-> Some("a350"), aircraft_family |-> Some("A350"),
                   revision |-> Some("DEMO-01")],
     rules |-> <<
        With(DentRule, [structure_zone |-> Some("wing"), priority |-> Some(3),
                        limits |-> Some(Lim(Some(50), None, None)),
                        actions |-> Some([disposition |-> Some("ALLOW_AS_IS")])]),
        With(DentRule, [priority |-> Some(3), pressurized |-> Some(0),
                        limits |-> Some(Lim(Some(50), None, None)),
                        actions |-> Some([disposition |-> Some("ALLOW_AS_IS")])])
     >>]

DocD ==
    [rule_set |-> [name |-> Some("demo-b"), aircraft_family |-> Some("B787"),
                   revision |-> Some("DEMO-01"), effective_date |-> Some("2024-01-01")],
     rules |-> <<
        With(DentRule, [enabled |-> Some(0), priority |-> Some(20),
                        actions |-> Some([disposition |-> Some("ALLOW_AS_IS")])]),
        With(DentRule, [priority |-> Some(10), pressurized |-> Some(0),
                        conditions |-> Some([NoConditions EXCEPT
                            !.requires_no_visible_crack = Some(TRUE)]),
                        limits |-> Some(Lim(None, Some(2), None)),
                        actions |-> Some([disposition |-> Some("ALLOW_AS_IS")]),
                        severity |-> Some("allow")]),
        With(DentRule, [damage_type |-> Some("crack"), priority |-> Some(0)])
     >>]

\* a document that load_seed rejects: its second rule has no structure_zone
DocBad ==
    [rule_set |-> [name |-> Some("bad"), aircraft_family |-> Some("B787"),
                   revision |-> Some("DEMO-01")],
     rules |-> <<
        With(DentRule, [priority |-> Some(30)]),
        [damage_type |-> Some("dent"), structure |-> Some("skin")]
     >>]

SeedDocs == {DocA, DocB, DocC, DocD, DocBad}

\* always-new, upsert (append), upsert with wipe
Modes == {[upsert |-> FALSE, wipe |-> FALSE], [upsert |-> TRUE, wipe |-> FALSE],
          [upsert |-> TRUE, wipe |-> TRUE]}

Loc(zone, side, sta, wl, stringer_num, pressurized) ==
    [zone |-> zone, side |-> side, sta |-> sta, wl |-> wl,
     stringer_num |-> stringer_num, pressurized |-> pressurized]

Dmg(type, structure, diameter_mm, depth_mm, ratio, visible_crack, near_fastener_row) ==
    [type |-> type, structure |-> structure, diameter_mm |-> diameter_mm,
     depth_mm |-> depth_mm, thickness_mm |-> None,
     depth_to_thickness_ratio |-> ratio, visible_crack |-> visible_crack,
     near_fastener_row |-> near_fastener_row]

BaseLoc == Loc(Some("fuselage"), None, None, None, None, None)
BaseDmg == Dmg(Some("dent"), Some("skin"), None, None, None, None, None)

\* contexts that vary the classification
ClassContexts ==
    {[location |-> [BaseLoc EXCEPT !.zone = z],
      damage |-> [BaseDmg EXCEPT !.type = t, !.structure = s]] :
        t \in {None, Some(""), Some("dent"), Some("crack")},
        s \in {None, Some("skin"), Some("frame")},
        z \in {None, Some(""), Some("fuselage"), Some("wing")}}
    \cup
    \* a context without its damage section, one whose damage section has no
    \* type key, and one without its location section
    {[location |-> BaseLoc],
     [location |-> BaseLoc, damage |-> [structure |-> Some("skin")]],
     [damage |-> BaseDmg]}

\* contexts that vary side and pressurization
SideContexts ==
    {[location |-> [BaseLoc EXCEPT !.side = sd, !.pressurized = p],
      damage |-> [BaseDmg EXCEPT !.diameter_mm = Some(25),
                                 !.depth_to_thickness_ratio = Some(3)]] :
        sd \in {None, Some(""), Some("ANY"), Some("LH"), Some("RH")},
        p \in {None, Some(TRUE), Some(FALSE)}}

\* contexts that vary station, waterline and stringer
RangeContexts ==
    {[location |-> [BaseLoc EXCEPT !.side = Some("LH"), !.sta = sta, !.stringer_num = st],
      damage |-> [BaseDmg EXCEPT !.depth_to_thickness_ratio = Some(8)]] :
        sta \in {None, Some(1), Some(2), Some(3), Some(4)},
        st \in {None, Some(1), Some(2), Some(3), Some(4)}}
    \cup
    {[location |-> [BaseLoc EXCEPT !.side = Some("RH"), !.wl = wl, !.stringer_num = st],
      damage |-> [BaseDmg EXCEPT !.depth_to_thickness_ratio = Some(8)]] :
        wl \in {None, Some(0), Some(1), Some(2), Some(3)},
        st \in {None, Some(1), Some(2), Some(3), Some(4)}}
    \cup
    {[location |-> [BaseLoc EXCEPT !.sta = sta, !.wl = wl, !.stringer_num = st],
      damage |-> [BaseDmg EXCEPT !.depth_to_thickness_ratio = Some(8)]] :
        sta \in {None, Some(1), Some(2), Some(4)},
        wl \in {None, Some(0), Some(1), Some(3)},
        st \in {None, Some(3)}}

\* contexts that vary the measurements
DamageContexts ==
    {[location |-> [BaseLoc EXCEPT !.side = Some("LH"), !.sta = Some(2),
                                   !.pressurized = p],
      damage |-> [BaseDmg EXCEPT !.diameter_mm = d, !.depth_mm = dp,
                                 !.depth_to_thickness_ratio = r,
                                 !.visible_crack = c, !.near_fastener_row = c]] :
        p \in {Some(TRUE), Some(FALSE)},
        d \in {None, Some(50), Some(80), Some(90)},
        dp \in {None, Some(3)},
        r \in {None, Some(5), Some(8)},
        c \in {None, Some(TRUE)}}

Contexts == ClassContexts \cup SideContexts \cup RangeContexts \cup DamageContexts

Families == {"B787", "A350", "B737"}
RevisionArgs == {None, Some(""), Some("DEMO-01"), Some("DEMO-02"), Some("DEMO-03")}

\* The calls explored: every context against the latest B787 rule set, and a
\* few contexts against every family and revision argument.
Requests ==
    {[aircraft_family |-> "B787", revision |-> None, ctx |-> c] : c \in Contexts}
    \cup
    {[aircraft_family |-> f, revision |-> rv, ctx |-> c] :
        f \in Families, rv \in RevisionArgs,
        c \in {x \in SideContexts : x.location.side = None}}

----------------------------------------------------------------------------
(* The state machine *)

NoRequest == [aircraft_family |-> "", revision |-> None, ctx |-> [x \in {} |-> None]]
NoLoad == [status |-> "none"]
NoTx == [status |-> "none"]

Init ==
    /\ rule_sets = <<>>
    /\ rules = <<>>
    /\ loads = 0
    /\ load_out = NoLoad
    /\ pc = "idle"
    /\ request = NoRequest
    /\ result = None
    /\ queried = FALSE
    /\ resolved = None
    /\ candidates = <<>>
    /\ trace = <<>>
    /\ tx = NoTx

\* The run repeats the last one: the same document (its rule set names it)
\* loaded again with upsert and wipe after a run that did so and committed.
\* The count of such runs in a row is kept for the properties.
Repeats(out, name, mode) ==
    IF /\ mode.upsert /\ mode.wipe
       /\ out.status = "ok" /\ out.upsert /\ out.wipe /\ out.name = name
    THEN out.repeats + 1 ELSE 1

\* main() of seed_rules.py with a document load_seed rejects: SeedError is
\* raised before the database is opened.
SeederRejects(doc, mode) ==
    /\ ~load_seed(doc).ok
    /\ loads' = loads + 1
    /\ load_out' = [status |-> "SeedError", upsert |-> mode.upsert, wipe |-> mode.wipe]
    /\ UNCHANGED <<rule_sets, rules, pc, request, result, queried, resolved, candidates, trace, tx>>

\* main() of seed_rules.py: BEGIN, upsert_ruleset, the optional DELETE,
\* insert_rules, commit.
SeederCommits(doc, mode) ==
    /\ load_seed(doc).ok
    /\ LET seed == load_seed(doc)
           matches == IF mode.upsert THEN UpsertMatches(rule_sets, seed.rs) ELSE {}
       IN  \E rule_set_id \in (IF matches # {} THEN matches ELSE {Len(rule_sets) + 1}) :
             LET rs_after == IF matches # {}
                             THEN UpdateRuleSet(rule_sets, seed.rs, rule_set_id)
                             ELSE InsertRuleSet(rule_sets, seed.rs)
                 kept == IF mode.upsert /\ mode.wipe
                         THEN WipeRules(rules, rule_set_id) ELSE rules
                 ins == insert_rules(kept, rule_set_id, seed.rules)
             IN  /\ rule_sets' = rs_after
                 /\ rules' = ins.table
                 /\ load_out' = [status |-> "ok", upsert |-> mode.upsert,
                                 wipe |-> mode.wipe, matched |-> matches # {},
                                 name |-> seed.rs.name,
                                 aircraft_family |-> seed.rs.aircraft_family,
                                 revision |-> seed.rs.revision,
                                 rule_set_id |-> rule_set_id,
                                 inserted |-> ins.inserted, total |-> ins.total,
                                 repeats |-> Repeats(load_out, seed.rs.name, mode)]
    /\ loads' = loads + 1
    /\ UNCHANGED <<pc, request, result, queried, resolved, candidates, trace, tx>>

\* A seeder run between two calls, for a document load_seed rejects.
LoadRejected(doc, mode) ==
    /\ pc = "idle"
    /\ loads < MaxLoads
    /\ SeederRejects(doc, mode)

\* A seeder run between two calls.
Load(doc, mode) ==
    /\ pc = "idle"
    /\ loads < MaxLoads
    /\ SeederCommits(doc, mode)

\* One call of assess_damage against the committed store.
Evaluate(req) ==
    /\ pc = "idle"
    /\ \E out \in {assess_damage(rule_sets, rules, req.aircraft_family, req.ctx, req.revision)} :
           /\ request' = req
           /\ result' = Some(out.result)
           /\ queried' = out.queried
           /\ resolved' = out.resolved
           /\ candidates' = out.rows
           /\ trace' = out.trace
           /\ pc' = IF IsRaised(out.result) THEN "raised" ELSE "returned"
    /\ UNCHANGED <<rule_sets, rules, loads, load_out, tx>>

\* The exception assess_damage raised ends the caller's run (conn.close()
\* in the finally clause has run); the next call or load may start.
Propagate ==
    /\ pc = "raised"
    /\ pc' = "idle"
    /\ request' = NoRequest
    /\ result' = None
    /\ queried' = FALSE
    /\ resolved' = None
    /\ candidates' = <<>>
    /\ trace' = <<>>
    /\ UNCHANGED <<rule_sets, rules, loads, load_out, tx>>

\* The caller has displayed the result; the next call or load may start.
Return ==
    /\ pc = "returned"
    /\ pc' = "idle"
    /\ request' = NoRequest
    /\ result' = None
    /\ queried' = FALSE
    /\ resolved' = None
    /\ candidates' = <<>>
    /\ trace' = <<>>
    /\ UNCHANGED <<rule_sets, rules, loads, load_out, tx>>

Next ==
    \/ \E doc \in SeedDocs, mode \in Modes : Load(doc, mode)
    \/ \E doc \in SeedDocs, mode \in Modes : LoadRejected(doc, mode)
    \/ \E req \in Requests : Evaluate(req)
    \/ Return

Spec == Init /\ [][Next]_vars

----------------------------------------------------------------------------
(* The seeder's run taken statement by statement, with a concurrent reader *)
(* rule_sets and rules are the committed database; the transaction works  *)
(* on its own copy, tx.rule_sets and tx.rules.                             *)

\* Variant: every statement is committed as it is executed (no BEGIN), so
\* other connections see the transaction's work in progress.
VisibleStoreAutocommit(committed, working) == working

\* What a second connection reads while the seeder's transaction is open:
\* between BEGIN and commit its statements are not visible.
VisibleStore(committed, working) == committed

\* Variant: the failed run keeps what it had written (no rollback).
RollbackKeepsWork(committed, working) == working

\* conn.rollback() in the except clauses of main()
Rollback(committed, working) == committed

\* conn.commit()
Commit(committed, working) == working

Committed == [rule_sets |-> rule_sets, rules |-> rules]
Working == [rule_sets |-> tx.rule_sets, rules |-> tx.rules]
TxOpen == tx.status = "open"

\* the database as the reader's connection sees it
Seen == IF TxOpen THEN VisibleStore(Committed, Working) ELSE Committed

\* documents and calls explored statement by statement
TxDocs == {DocA, DocD, DocBad}
TxContexts ==
    {c \in DamageContexts :
        /\ c.damage.diameter_mm = Some(80)
        /\ c.damage.depth_to_thickness_ratio = Some(5)
        /\ c.damage.visible_crack = None}
TxRequests ==
    {[aircraft_family |-> "B787", revision |-> None, ctx |-> c] : c \in TxContexts}
    \cup
    {[aircraft_family |-> "B787", revision |-> Some("DEMO-01"), ctx |-> c] :
        c \in {x \in TxContexts : x.damage.depth_mm = None}}
    \cup
    {[aircraft_family |-> "B787", revision |-> None, ctx |-> [location |-> BaseLoc]]}

\* load_seed raises SeedError: main() ends before the database is opened.
TxRejected(doc, mode) ==
    /\ ~TxOpen
    /\ loads < MaxLoads
    /\ ~load_seed(doc).ok
    /\ loads' = loads + 1
    /\ load_out' = [status |-> "SeedError", upsert |-> mode.upsert, wipe |-> mode.wipe]
    /\ tx' = [status |-> "rejected", before |-> Committed]
    /\ UNCHANGED <<rule_sets, rules, pc, request, result, queried, resolved, candidates, trace>>

\* connect, run_schema, BEGIN
TxBegin(doc, mode) ==
    /\ ~TxOpen
    /\ loads < MaxLoads
    /\ load_seed(doc).ok
    /\ loads' = loads + 1
    /\ tx' = [status |-> "open", step |-> "upsert", seed |-> load_seed(doc),
              mode |-> mode, before |-> Committed,
              rule_sets |-> rule_sets, rules |-> rules,
              rule_set_id |-> 0, matched |-> FALSE, next |-> 1]
    /\ UNCHANGED <<rule_sets, rules, load_out, pc, request, result, queried,
                   resolved, candidates, trace>>

\* rule_set_id = upsert_ruleset(conn, rs, upsert=args.upsert_ruleset)
TxUpsert ==
    /\ TxOpen /\ tx.step = "upsert"
    /\ LET matches == IF tx.mode.upsert THEN UpsertMatches(tx.rule_sets, tx.seed.rs) ELSE {}
       IN  \E rule_set_id \in (IF matches # {} THEN matches ELSE {Len(tx.rule_sets) + 1}) :
             tx' = [tx EXCEPT
                      !.rule_sets = IF matches # {}
                                    THEN UpdateRuleSet(tx.rule_sets, tx.seed.rs, rule_set_id)
                                    ELSE InsertRuleSet(tx.rule_sets, tx.seed.rs),
                      !.rule_set_id = rule_set_id,
                      !.matched = matches # {},
                      !.step = IF tx.mode.upsert /\ tx.mode.wipe THEN "wipe" ELSE "insert"]
    /\ UNCHANGED <<rule_sets, rules, loads, load_out, pc, request, result, queried,
                   resolved, candidates, trace>>

\* conn.execute("DELETE FROM rules WHERE rule_set_id = ?", (rule_set_id,))
TxWipe ==
    /\ TxOpen /\ tx.step = "wipe"
    /\ tx' = [tx EXCEPT !.rules = WipeRules(tx.rules, tx.rule_set_id),
                        !.step = "insert"]
    /\ UNCHANGED <<rule_sets, rules, loads, load_out, pc, request, result, queried,
                   resolved, candidates, trace>>

\* insert_rules: one INSERT INTO rules of its loop
TxInsert ==
    /\ TxOpen /\ tx.step = "insert"
    /\ tx.next <= Len(tx.seed.rules)
    /\ tx' = [tx EXCEPT
                !.rules = Append(tx.rules,
                                 RuleRow(tx.seed.rules[tx.next], NextRuleId(tx.rules),
                                         tx.rule_set_id)),
                !.next = tx.next + 1]
    /\ UNCHANGED <<rule_sets, rules, loads, load_out, pc, request, result, queried,
                   resolved, candidates, trace>>

\* insert_rules: the SELECT COUNT(*) after the loop; then conn.commit()
TxCommit ==
    /\ TxOpen /\ tx.step = "insert"
    /\ tx.next > Len(tx.seed.rules)
    /\ rule_sets' = Commit(Committed, Working).rule_sets
    /\ rules' = Commit(Committed, Working).rules
    /\ load_out' = [status |-> "ok", upsert |-> tx.mode.upsert,
                    wipe |-> tx.mode.wipe, matched |-> tx.matched,
                    name |-> tx.seed.rs.name,
                    aircraft_family |-> tx.seed.rs.aircraft_family,
                    revision |-> tx.seed.rs.revision,
                    rule_set_id |-> tx.rule_set_id,
                    inserted |-> tx.next - 1,
                    total |-> CountRules(tx.rules, tx.rule_set_id),
                    repeats |-> Repeats(load_out, tx.seed.rs.name, tx.mode)]
    /\ tx' = [status |-> "committed", seed |-> tx.seed, mode |-> tx.mode,
              before |-> tx.before, rule_set_id |-> tx.rule_set_id,
              matched |-> tx.matched]
    /\ UNCHANGED <<loads, pc, request, result, queried, resolved, candidates, trace>>

\* A statement of the transaction (or the commit) raises: the except clause
\* rolls back and the exception ends the run.
TxFail ==
    /\ TxOpen
    /\ rule_sets' = Rollback(Committed, Working).rule_sets
    /\ rules' = Rollback(Committed, Working).rules
    /\ load_out' = [status |-> "error", upsert |-> tx.mode.upsert, wipe |-> tx.mode.wipe]
    /\ tx' = [status |-> "rolled_back", seed |-> tx.seed, mode |-> tx.mode,
              before |-> tx.before, step |-> tx.step, written |-> tx.next - 1]
    /\ UNCHANGED <<loads, pc, request, result, queried, resolved, candidates, trace>>

\* assess_damage up to its first SELECT: the classification test and the
\* rule set lookup, on the reader's own connection.
Resolve(req) ==
    /\ pc = "idle"
    /\ LET dmg_type == _get(req.ctx, <<"damage", "type">>)
           structure == _get(req.ctx, <<"damage", "structure">>)
           zone == _get(req.ctx, <<"location", "zone">>)
           rs == ResolveRuleSet(Seen.rule_sets, req.aircraft_family, req.revision)
       IN  IF MissingClassification(dmg_type, structure, zone)
           THEN /\ pc' = "returned"
                /\ result' = Some(MissingClassificationResult)
                /\ queried' = FALSE
                /\ resolved' = None
           ELSE IF rs = None
           THEN /\ pc' = "returned"
                /\ result' = Some(NoRuleSetResult(req.aircraft_family))
                /\ queried' = TRUE
                /\ resolved' = None
           ELSE /\ pc' = "resolved"
                /\ result' = None
                /\ queried' = TRUE
                /\ resolved' = rs
    /\ request' = req
    /\ UNCHANGED <<rule_sets, rules, loads, load_out, candidates, trace, tx>>

\* assess_damage from its second SELECT on
Fetch ==
    /\ pc = "resolved"
    /\ \E out \in {FetchAndScan(Seen.rules, Val(resolved), request.ctx)} :
           /\ result' = Some(out.result)
           /\ candidates' = out.rows
           /\ trace' = out.trace
           /\ pc' = IF IsRaised(out.result) THEN "raised" ELSE "returned"
    /\ UNCHANGED <<rule_sets, rules, loads, load_out, request, queried, resolved, tx>>

NextTx ==
    \/ \E doc \in TxDocs, mode \in Modes : TxRejected(doc, mode)
    \/ \E doc \in TxDocs, mode \in Modes : TxBegin(doc, mode)
    \/ TxUpsert
    \/ TxWipe
    \/ TxInsert
    \/ TxCommit
    \/ TxFail
    \/ \E req \in TxRequests : Resolve(req)
    \/ Fetch
    \/ Return

SpecTx == Init /\ [][NextTx]_vars

----------------------------------------------------------------------------
(* The seeder run after run, on documents that include ill-typed ones *)

\* Number of seeder runs explored one after the other.
MaxSeeds == 3

\* a value of a JSON type other than the one load_seed asks for
OfType(v, t) == <<v, t>>

\* its first rule gives null for damage_type
DocNull ==
    [rule_set |-> [name |-> Some("null-type"), aircraft_family |-> Some("B787"),
                   revision |-> Some("DEMO-03")],
     rules |-> <<
        With(DentRule, [damage_type |-> None, priority |-> Some(4)]),
        With(DentRule, [priority |-> Some(2),
                        limits |-> Some(Lim(Some(50), None, None))])
     >>]

\* its second rule gives a number for structure_zone
DocNumber ==
    [rule_set |-> [name |-> Some("number-zone"), aircraft_family |-> Some("B787"),
                   revision |-> Some("DEMO-02")],
     rules |-> <<
        With(DentRule, [priority |-> Some(4)]),
        With(DentRule, [structure_zone |-> OfType(5, "number")])
     >>]

\* its first rule gives a list for conditions
DocList ==
    [rule_set |-> [name |-> Some("list-conditions"), aircraft_family |-> Some("B787"),
                   revision |-> Some("DEMO-01")],
     rules |-> <<
        With(DentRule, [conditions |-> OfType(<<"deny_if">>, "array")]),
        With(DentRule, [priority |-> Some(4)])
     >>]

\* its only rule gives null for limits
DocNullLimits ==
    [rule_set |-> [name |-> Some("null-limits"), aircraft_family |-> Some("B787"),
                   revision |-> Some("DEMO-01")],
     rules |-> << With(DentRule, [limits |-> None]) >>]

\* its only rule gives a string for actions
DocStringActions ==
    [rule_set |-> [name |-> Some("string-actions"), aircraft_family |-> Some("B787"),
                   revision |-> Some("DEMO-02")],
     rules |-> << With(DentRule, [actions |-> OfType("ALLOW_AS_IS", "string")]) >>]

SeedingDocs == {DocA, DocB, DocD, DocBad, DocNull, DocNumber, DocList,
                DocNullLimits, DocStringActions}

\* the document whose rule set has the given name
DocNamed(name) == CHOOSE d \in SeedingDocs \cup SeedDocs : Str(d.rule_set.name) = name

SeedRejected(doc, mode) ==
    /\ loads < MaxSeeds
    /\ SeederRejects(doc, mode)

Seed(doc, mode) ==
    /\ loads < MaxSeeds
    /\ SeederCommits(doc, mode)

NextSeed ==
    \/ \E doc \in SeedingDocs, mode \in Modes : Seed(doc, mode)
    \/ \E doc \in SeedingDocs, mode \in Modes : SeedRejected(doc, mode)

SpecSeed == Init /\ [][NextSeed]_vars

----------------------------------------------------------------------------
(* assess_damage on a given database: rule sets written by the seeder, and *)
(* rows whose actions_json is NULL, empty or {} as another writer may      *)
(* leave them                                                              *)

Conds(rnvc, deny_if, allow_if) ==
    [requires_no_visible_crack |-> rnvc, deny_if |-> deny_if, allow_if |-> allow_if]

DepthField == <<"damage", "depth_mm">>
DiameterField == <<"damage", "diameter_mm">>
FastenerField == <<"damage", "near_fastener_row">>

\* the conditions documents explored
EngineConditions ==
    {NoConditions,
     Conds(Some(TRUE), <<>>, <<>>),
     Conds(Some(FALSE), <<>>, <<>>),
     Conds(None, <<Clause(FastenerField, "==", Some(TRUE))>>, <<>>),
     Conds(None, <<Clause(FastenerField, "!=", Some(TRUE))>>, <<>>),
     Conds(None, <<Clause(DepthField, ">", Some(2))>>, <<>>),
     Conds(None, <<Clause(DepthField, "<", Some(3))>>, <<>>),
     Conds(None, <<>>, <<Clause(DepthField, "<=", Some(2))>>),
     Conds(None, <<>>, <<Clause(DepthField, ">=", Some(3))>>),
     Conds(None, <<Clause(<<"inspection", "depth_mm">>, "<=", Some(9))>>, <<>>),
     Conds(None, <<>>, <<Clause(<<"damage", "depth_mm", "max">>, "<=", Some(9))>>),
     Conds(None, <<Clause(DiameterField, "~=", Some(50))>>, <<>>),
     Conds(None, <<>>, <<Clause(DiameterField, "~=", Some(50))>>),
     Conds(Some(TRUE),
           <<Clause(DepthField, ">", Some(2)), Clause(FastenerField, "==", Some(TRUE))>>,
           <<Clause(DiameterField, "<=", Some(80)), Clause(DiameterField, ">=", Some(50))>>)}

\* the limits documents explored
EngineLimits ==
    {NoLimits, Lim(Some(50), Some(2), Some(5)), Lim(Some(80), None, Some(8)),
     Lim(None, Some(2), None), Lim(Some(50), Some(3), None)}

\* the actions of the first rule: with a disposition, or without one
EngineActions == {Some([disposition |-> Some("ALLOW_AS_IS")]), Some(NoActions)}

\* a document of three rules: the first has the given conditions, limits and
\* actions; the second, of lower priority, refuses a visible crack; the
\* third, lower still, applies from station 5 on
EngineDoc(conditions, limits, actions) ==
    [rule_set |-> [name |-> Some("engine"), aircraft_family |-> Some("B787"),
                   revision |-> Some("ENG-01")],
     rules |-> <<
        With(DentRule, [priority |-> Some(10), conditions |-> Some(conditions),
                        limits |-> Some(limits), actions |-> actions,
                        severity |-> Some("allow")]),
        With(DentRule, [priority |-> Some(5),
                        conditions |-> Some(Conds(Some(TRUE), <<>>, <<>>)),
                        limits |-> Some(Lim(Some(80), None, None)),
                        actions |-> Some([disposition |-> Some("REPAIR")]),
                        severity |-> Some("repair")]),
        With(DentRule, [priority |-> Some(1), sta_min |-> Some(5),
                        conditions |-> Some(Conds(None,
                            <<Clause(FastenerField, "==", Some(TRUE))>>, <<>>)),
                        limits |-> Some(Lim(None, Some(3), None)),
                        actions |-> Some([disposition |-> Some("ALLOW_AS_IS")])])
     >>]

\* the database after the seeder loaded the document into an empty one
StoreOf(doc) ==
    [rule_sets |-> InsertRuleSet(<<>>, load_seed(doc).rs),
     rules |-> insert_rules(<<>>, 1, load_seed(doc).rules).table]

\* the same with the actions_json of its first rule replaced
WithActionsJson(store, col) ==
    [store EXCEPT !.rules = [@ EXCEPT ![1] = [@ EXCEPT !.actions_json = col]]]

\* actions_json as stored for {} and for NULL or the empty string
StoredActionsWithout == {JsonDumps(NoActions), EmptyJson}

EngineStores ==
    {StoreOf(EngineDoc(c, Lim(Some(50), Some(2), Some(5)),
                       Some([disposition |-> Some("ALLOW_AS_IS")]))) :
        c \in EngineConditions}
    \cup
    {StoreOf(EngineDoc(NoConditions, l, a)) : l \in EngineLimits, a \in EngineActions}
    \cup
    {WithActionsJson(StoreOf(EngineDoc(NoConditions, l, Some(NoActions))), col) :
        l \in EngineLimits, col \in StoredActionsWithout}

EngineContexts ==
    {[location |-> BaseLoc,
      damage |-> [BaseDmg EXCEPT !.diameter_mm = d, !.depth_mm = dp,
                                 !.depth_to_thickness_ratio = r,
                                 !.visible_crack = c, !.near_fastener_row = f]] :
        d \in {None, Some(50), Some(80)},
        dp \in {None, Some(2), Some(3)},
        r \in {None, Some(5), Some(8)},
        c \in {None, Some(TRUE), Some(FALSE)},
        f \in {None, Some(TRUE)}}
    \cup
    {[location |-> [BaseLoc EXCEPT !.sta = sta],
      damage |-> [BaseDmg EXCEPT !.diameter_mm = Some(90), !.depth_mm = dp,
                                 !.visible_crack = c, !.near_fastener_row = f]] :
        sta \in {Some(2), Some(5)},
        dp \in {None, Some(3)},
        c \in {None, Some(TRUE)},
        f \in {None, Some(TRUE)}}

EngineRequests ==
    {[aircraft_family |-> "B787", revision |-> None, ctx |-> c] : c \in EngineContexts}

InitEngine ==
    /\ \E store \in EngineStores :
          /\ rule_sets = store.rule_sets
          /\ rules = store.rules
    /\ loads = 0
    /\ load_out = NoLoad
    /\ pc = "idle"
    /\ request = NoRequest
    /\ result = None
    /\ queried = FALSE
    /\ resolved = None
    /\ candidates = <<>>
    /\ trace = <<>>
    /\ tx = NoTx

NextEngine ==
    \/ \E req \in EngineRequests : Evaluate(req)
    \/ Return

SpecEngine == InitEngine /\ [][NextEngine]_vars

----------------------------------------------------------------------------
(* Calls against a database whose JSON columns were not written by the     *)
(* seeder: the columns are TEXT and hold whatever was put there.           *)

JsonColumns == {"conditions_json", "limits_json", "actions_json"}

\* what a JSON column may hold besides an object
StoredTexts == {MalformedJson, EmptyJson} \cup
               {JsonValue(kind) : kind \in {"null", "number", "string", "list"}}

\* the store with one column of its i-th rule replaced
WithColumn(store, i, col, text) ==
    [store EXCEPT !.rules = [@ EXCEPT ![i] = [@ EXCEPT ![col] = text]]]

StoredBase ==
    StoreOf(EngineDoc(NoConditions, Lim(Some(50), Some(2), Some(5)),
                      Some([disposition |-> Some("ALLOW_AS_IS")])))

StoredStores ==
    {StoredBase} \cup
    {WithColumn(StoredBase, i, col, text) :
        i \in 1..3, col \in JsonColumns, text \in StoredTexts}

\* contexts within and beyond the limits of the first rule, with and
\* without a visible crack, before and from station 5 on
StoredContexts ==
    {[location |-> [BaseLoc EXCEPT !.sta = sta],
      damage |-> [BaseDmg EXCEPT !.diameter_mm = d, !.depth_mm = Some(2),
                                 !.depth_to_thickness_ratio = Some(5),
                                 !.visible_crack = c]] :
        sta \in {Some(2), Some(5)},
        d \in {Some(50), Some(80), Some(90)},
        c \in {None, Some(TRUE)}}

StoredRequests ==
    {[aircraft_family |-> "B787", revision |-> None, ctx |-> c] : c \in StoredContexts}

InitStored ==
    /\ \E store \in StoredStores :
          /\ rule_sets = store.rule_sets
          /\ rules = store.rules
    /\ loads = 0
    /\ load_out = NoLoad
    /\ pc = "idle"
    /\ request = NoRequest
    /\ result = None
    /\ queried = FALSE
    /\ resolved = None
    /\ candidates = <<>>
    /\ trace = <<>>
    /\ tx = NoTx

NextStored ==
    \/ \E req \in StoredRequests : Evaluate(req)
    \/ Return
    \/ Propagate

SpecStored == InitStored /\ [][NextStored]_vars

----------------------------------------------------------------------------
(* Seeder runs, up to MaxSeeds of them, with calls of assess_damage that   *)
(* name the revision between them                                          *)

ReloadDocs == {DocA, DocB, DocD}

ReloadContexts ==
    {[location |-> BaseLoc,
      damage |-> [BaseDmg EXCEPT !.diameter_mm = Some(50), !.depth_mm = dp,
                                 !.depth_to_thickness_ratio = Some(5)]] :
        dp \in {Some(2), Some(3)}}

ReloadRequests ==
    {[aircraft_family |-> "B787", revision |-> rv, ctx |-> c] :
        rv \in {Some("DEMO-01"), Some("DEMO-02")}, c \in ReloadContexts}

\* A seeder run between two calls.
Reload(doc, mode) ==
    /\ pc = "idle"
    /\ loads < MaxSeeds
    /\ SeederCommits(doc, mode)

NextReload ==
    \/ \E doc \in ReloadDocs, mode \in Modes : Reload(doc, mode)
    \/ \E req \in ReloadRequests : Evaluate(req)
    \/ Return

SpecReload == Init /\ [][NextReload]_vars

----------------------------------------------------------------------------
(* Vocabulary of the properties *)

Returned == pc = "returned"
Res == Val(result)
Ctx == request.ctx

\* the stored rule with the given id
RuleById(id) == CHOOSE r \in {rules[i] : i \in 1..Len(rules)} : r.id = id
AllRules == {rules[i] : i \in 1..Len(rules)}
CandidateIds == {candidates[i] : i \in 1..Len(candidates)}
LimitsOf(r) == JsonLoads(r.limits_json, NoLimits)
ConditionsOf(r) == JsonLoads(r.conditions_json, NoConditions)

\* an optional string that is absent, null or empty
Absent(o) == o = None \/ o = Some("")

\* the value of section.key in a context, None when the section or the key
\* is not there
Field(ctx, section, key) ==
    IF section \in DOMAIN ctx /\ key \in DOMAIN ctx[section]
    THEN ctx[section][key] ELSE None

ClassificationIsMissing(ctx) ==
    \/ Absent(Field(ctx, "damage", "type"))
    \/ Absent(Field(ctx, "damage", "structure"))
    \/ Absent(Field(ctx, "location", "zone"))

\* a is ahead of b in the order priority descending, then id ascending
Ahead(a, b) == a.priority > b.priority \/ (a.priority = b.priority /\ a.id < b.id)
FirstOf(S) == CHOOSE a \in S : \A b \in S \ {a} : Ahead(a, b)

\* position of the trace entry of rule id (0 when it was not scanned)
TraceStep(id) ==
    LET at == {i \in 1..Len(trace) : trace[i].id = id}
    IN  IF at = {} THEN "none" ELSE trace[CHOOSE i \in at : TRUE].step

NotProvidedReason == <<"Depth/thickness ratio not provided (needed for this rule).">>
HasReason(reasons, r) == \E i \in 1..Len(reasons) : reasons[i] = r
HasReasonTagged(reasons, tag) == \E i \in 1..Len(reasons) : reasons[i][1] = tag

----------------------------------------------------------------------------
(* C1 *)

\* C1: whenever assess_damage returns passed = false (FAIL through
\* best_fail, NO_MATCH, MISSING_CLASSIFICATION or NO_RULESET) the
\* disposition of the result is ENGINEERING_REVIEW.
C1_FailedMeansEngineeringReview ==
    Returned /\ ~Res.passed => Res.disposition = ER

----------------------------------------------------------------------------
(* C2 *)

\* the fetched rows that pass the range tests and their conditions
Eligible ==
    {r \in AllRules :
        /\ r.id \in CandidateIds
        /\ RangeKeeps(r, Ctx)
        /\ _eval_conditions(ConditionsOf(r), Ctx, <<>>).ok}
PassingRules == {r \in Eligible : _eval_limits(LimitsOf(r), Ctx, <<>>).ok}
FailingRules == Eligible \ PassingRules

\* C2: the result is the PASS of the first eligible rule, in the order
\* priority descending then id ascending, that passes its limits, whatever
\* failed before it; when none passes it is the FAIL of the first eligible
\* rule in that order that fails its limits.
C2_SelectionOrder ==
    Returned /\ candidates # <<>> =>
        IF PassingRules # {}
        THEN Res.passed /\ Res.rule_id = Some(FirstOf(PassingRules).id)
        ELSE IF FailingRules # {}
        THEN ~Res.passed /\ Res.rule_id = Some(FirstOf(FailingRules).id)
        ELSE ~Res.passed /\ Res.rule_id = None

\* A PASS returned after two rows ahead of it failed their limits.
C2_Witness ==
    /\ Returned
    /\ Len(trace) >= 3
    /\ trace[1].step = "fail" /\ trace[2].step = "fail"
    /\ trace[Len(trace)].step = "pass"
    /\ Res.passed

\* A FAIL reporting the first of several rows that failed, two of them of
\* equal priority.
C2_WitnessFail ==
    /\ Returned
    /\ ~Res.passed
    /\ Cardinality(FailingRules) >= 2
    /\ \E a, b \in FailingRules : a.id # b.id /\ a.priority = b.priority
                                   /\ Res.rule_id = Some(a.id)

----------------------------------------------------------------------------
(* C3 *)

\* C3: a context whose damage.type, damage.structure or location.zone is
\* absent, null or empty gets the fixed escalation result (passed = false,
\* ENGINEERING_REVIEW, no rule id) without the store being queried, whatever
\* the store holds.
C3_MissingClassificationShortCircuits ==
    Returned /\ ClassificationIsMissing(Ctx) =>
        /\ ~Res.passed
        /\ Res.disposition = ER
        /\ Res.rule_id = None
        /\ Res = MissingClassificationResult
        /\ ~queried /\ resolved = None /\ candidates = <<>> /\ trace = <<>>

\* The short-circuit taken for a context without a damage section.
C3_WitnessNoSection ==
    /\ Returned
    /\ "damage" \notin DOMAIN Ctx
    /\ rule_sets # <<>>
    /\ Res = MissingClassificationResult

\* The short-circuit taken with an empty type while the store holds a rule
\* set of the family.
C3_Witness ==
    /\ Returned
    /\ Field(Ctx, "damage", "type") = Some("")
    /\ Field(Ctx, "damage", "structure") = Some("skin")
    /\ Field(Ctx, "location", "zone") = Some("fuselage")
    /\ \E i \in 1..Len(rule_sets) : rule_sets[i].aircraft_family = request.aircraft_family
    /\ Res = MissingClassificationResult

----------------------------------------------------------------------------
(* C4 *)

RevisionRequested == request.revision # None /\ request.revision # Some("")

\* rule sets that may serve the request: of the family, and of exactly the
\* requested revision when one was requested
Serving ==
    {i \in 1..Len(rule_sets) :
        /\ rule_sets[i].aircraft_family = request.aircraft_family
        /\ (RevisionRequested => Some(rule_sets[i].revision) = request.revision)}

\* C4: with no rule set for the family, or none of exactly the requested
\* (family, revision), the call returns passed = false, ENGINEERING_REVIEW,
\* no rule id and a non-empty list of reasons; no other revision of the
\* family is used instead.
C4_NoRuleSetEscalates ==
    Returned /\ ~ClassificationIsMissing(Ctx) /\ Serving = {} =>
        /\ ~Res.passed
        /\ Res.disposition = ER
        /\ Res.rule_id = None
        /\ Res.reasons # <<>>
        /\ resolved = None /\ candidates = <<>>

\* A requested revision that is not in the store while another revision of
\* the family is.
C4_Witness ==
    /\ Returned
    /\ ~ClassificationIsMissing(Ctx)
    /\ RevisionRequested
    /\ Serving = {}
    /\ \E i \in 1..Len(rule_sets) : rule_sets[i].aircraft_family = request.aircraft_family
    /\ Res = NoRuleSetResult(request.aircraft_family)

----------------------------------------------------------------------------
(* C5 *)

RatioAbsent == Ctx.damage.depth_to_thickness_ratio = None
HasRatioLimit(r) == LimitsOf(r).max_depth_to_thickness_ratio # None

\* C5: a rule with max_depth_to_thickness_ratio scanned against a context
\* without depth_to_thickness_ratio is never the PASS; when it is the
\* reported FAIL its reasons hold the "not provided" message and no
\* "exceeds" message, and a supplied ratio over the limit gives the
\* "exceeds" message and not the "not provided" one.
C5_MissingRatioFails ==
    Returned =>
        /\ \A i \in 1..Len(trace) :
              HasRatioLimit(RuleById(trace[i].id)) /\ RatioAbsent
                  => trace[i].step # "pass"
        /\ Res.rule_id # None /\ HasRatioLimit(RuleById(Val(Res.rule_id))) =>
              IF RatioAbsent
              THEN /\ ~Res.passed
                   /\ HasReason(Res.reasons, NotProvidedReason)
                   /\ ~HasReasonTagged(Res.reasons, "Ratio > limit")
              ELSE /\ ~HasReason(Res.reasons, NotProvidedReason)
                   /\ HasReasonTagged(Res.reasons, "Ratio > limit")
                        <=> Val(Ctx.damage.depth_to_thickness_ratio)
                              > Val(LimitsOf(RuleById(Val(Res.rule_id))).max_depth_to_thickness_ratio)

\* A FAIL whose only violation is the missing ratio: the diameter is within
\* the limit of the rule.
C5_Witness ==
    /\ Returned
    /\ Res.rule_id # None
    /\ RatioAbsent
    /\ ~Res.passed
    /\ Res.reasons = <<NotProvidedReason>>
    /\ Ctx.damage.diameter_mm # None

----------------------------------------------------------------------------
(* C6 *)

\* v is absent, or not below lo when lo is set and not above hi when hi is set
Within(v, lo, hi) ==
    v = None \/ ((lo = None \/ Val(v) >= Val(lo)) /\ (hi = None \/ Val(v) <= Val(hi)))

InEnvelope(r, ctx) ==
    /\ Within(ctx.location.sta, r.sta_min, r.sta_max)
    /\ Within(ctx.location.wl, r.wl_min, r.wl_max)
    /\ Within(ctx.location.stringer_num, r.stringer_min, r.stringer_max)

\* C6: a fetched row gets past the range tests if and only if each of sta,
\* wl and stringer_num is absent from the context or lies within the rule's
\* bounds, inclusive, an unset bound leaving its side open.
C6_RangeFilter ==
    Returned =>
        /\ \A i \in 1..Len(trace) :
              trace[i].step # "range" <=> InEnvelope(RuleById(trace[i].id), Ctx)
        /\ \A r \in AllRules :
              r.id \in CandidateIds => (RangeKeeps(r, Ctx) <=> InEnvelope(r, Ctx))

\* A rule with both station bounds set, reported for a context whose station
\* equals the upper bound.
C6_Witness ==
    /\ Returned
    /\ Res.rule_id # None
    /\ LET r == RuleById(Val(Res.rule_id))
       IN  /\ r.sta_min # None /\ r.sta_max # None
           /\ Ctx.location.sta = r.sta_max

\* The same at the lower bound.
C6_WitnessLower ==
    /\ Returned
    /\ Res.rule_id # None
    /\ LET r == RuleById(Val(Res.rule_id))
       IN  /\ r.sta_min # None /\ r.sta_max # None
           /\ Ctx.location.sta = r.sta_min

\* A rule with both station bounds set, reported for a context without sta;
\* and a rule skipped because the stringer is below its stringer_min.
C6_WitnessAbsent ==
    /\ Returned
    /\ Res.rule_id # None
    /\ LET r == RuleById(Val(Res.rule_id))
       IN  /\ r.sta_min # None /\ r.sta_max # None
           /\ Ctx.location.sta = None

C6_WitnessSkipped ==
    /\ Returned
    /\ \E i \in 1..Len(trace) :
          /\ trace[i].step = "range"
          /\ RuleById(trace[i].id).stringer_min # None
          /\ Ctx.location.stringer_num # None
          /\ Val(Ctx.location.stringer_num) < Val(RuleById(trace[i].id).stringer_min)

----------------------------------------------------------------------------
(* C7, C8 *)

\* the rule is of the resolved rule set, enabled, and of the context's
\* classification
OfRequestedClass(r) ==
    /\ Some(r.rule_set_id) = resolved
    /\ r.enabled = 1
    /\ Some(r.damage_type) = Ctx.damage.type
    /\ Some(r.structure_zone) = Ctx.location.zone
    /\ Some(r.structure) = Ctx.damage.structure

PressurizationAgrees(r) ==
    \/ r.pressurized = None
    \/ Ctx.location.pressurized = None
    \/ (Val(r.pressurized) = 1) = Val(Ctx.location.pressurized)

SideAgrees(r) == r.side = "ANY" \/ Some(r.side) = Ctx.location.side

\* C7: a rule is a candidate on side when its side is ANY or equals the
\* side of the context, and a context with no side matches every rule side.
C7_NoSideMatchesEverySide ==
    Returned /\ resolved # None =>
        \A r \in AllRules :
            OfRequestedClass(r) /\ PressurizationAgrees(r) =>
                (r.id \in CandidateIds <=>
                    (SideAgrees(r) \/ Absent(Ctx.location.side)))

\* C8: among the rules of the resolved rule set that match on classification
\* and side, the candidates are exactly those whose pressurized is unset, or
\* whose context leaves pressurized unset, or whose pressurized equals the
\* context's.
C8_PressurizedTriState ==
    Returned /\ resolved # None =>
        \A r \in AllRules :
            OfRequestedClass(r) /\ SideAgrees(r) =>
                (r.id \in CandidateIds <=> PressurizationAgrees(r))

\* A context stating pressurized = false: a rule with pressurized = 0 is a
\* candidate and a rule with pressurized = 1 of the same rule set is not.
C8_Witness ==
    /\ Returned /\ resolved # None
    /\ Ctx.location.pressurized = Some(FALSE)
    /\ \E a, b \in AllRules :
          /\ OfRequestedClass(a) /\ SideAgrees(a) /\ a.pressurized = Some(0)
          /\ a.id \in CandidateIds
          /\ OfRequestedClass(b) /\ SideAgrees(b) /\ b.pressurized = Some(1)
          /\ b.id \notin CandidateIds

\* A context that does not state pressurization, with a pressurized = 1 rule
\* among the candidates.
C8_WitnessUnstated ==
    /\ Returned /\ resolved # None
    /\ Ctx.location.pressurized = None
    /\ \E a \in AllRules : a.pressurized = Some(1) /\ a.id \in CandidateIds

----------------------------------------------------------------------------
(* C9 *)

\* the largest id among the rule sets that may serve the request
ServingId == CHOOSE i \in {rule_sets[j].id : j \in Serving} :
                \A j \in Serving : rule_sets[j].id <= i

\* C9: a reported rule is a stored rule of the rule set resolved for the
\* request, is enabled, and has exactly the context's damage type, zone and
\* structure.
C9_ReportedRuleIsCandidate ==
    Returned /\ Res.rule_id # None =>
        /\ \E r \in AllRules : r.id = Val(Res.rule_id)
        /\ Serving # {} /\ resolved = Some(ServingId)
        /\ OfRequestedClass(RuleById(Val(Res.rule_id)))

\* A rule reported while its rule set holds a disabled rule of the same
\* classification and higher priority that the context is in range of.
C9_Witness ==
    /\ Returned /\ Res.rule_id # None
    /\ \E d \in AllRules :
          /\ d.enabled = 0
          /\ Some(d.rule_set_id) = resolved
          /\ d.priority > RuleById(Val(Res.rule_id)).priority
          /\ Some(d.damage_type) = Ctx.damage.type
          /\ Some(d.structure_zone) = Ctx.location.zone
          /\ Some(d.structure) = Ctx.damage.structure
          /\ InEnvelope(d, Ctx)

\* A rule reported while another rule set holds a rule of the same
\* classification and higher priority.
C9_WitnessOtherSet ==
    /\ Returned /\ Res.rule_id # None
    /\ \E d \in AllRules :
          /\ d.enabled = 1
          /\ Some(d.rule_set_id) # resolved
          /\ d.priority > RuleById(Val(Res.rule_id)).priority
          /\ Some(d.damage_type) = Ctx.damage.type
          /\ Some(d.structure_zone) = Ctx.location.zone
          /\ Some(d.structure) = Ctx.damage.structure

----------------------------------------------------------------------------
(* C10 *)

\* id of the newest rule set of a family in a rule_sets table, 0 for none
Newest(rs_table, family) ==
    LET ids == {rs_table[i].id : i \in
                  {j \in 1..Len(rs_table) : rs_table[j].aircraft_family = family}}
    IN  IF ids = {} THEN 0 ELSE CHOOSE i \in ids : \A j \in ids : j <= i

AllFamilies == Families \cup {rule_sets[i].aircraft_family : i \in 1..Len(rule_sets)}

\* a call that queried the store used the newest rule set that may serve it
C10_Resolved ==
    Returned /\ queried =>
        resolved = (IF Serving = {} THEN None ELSE Some(ServingId))

\* a committed seeder run: always-new adds one rule set, which becomes the
\* newest of its family; an upsert that matched adds none and leaves the
\* newest rule set of every family as it was
C10_LoadStep ==
    loads' = loads + 1 /\ load_out'.status = "ok" =>
        /\ \A i \in 1..Len(rule_sets) :
              /\ i <= Len(rule_sets')
              /\ rule_sets'[i].id = rule_sets[i].id
              /\ rule_sets'[i].aircraft_family = rule_sets[i].aircraft_family
              /\ rule_sets'[i].revision = rule_sets[i].revision
        /\ ~load_out'.upsert =>
              /\ Len(rule_sets') = Len(rule_sets) + 1
              /\ Newest(rule_sets, load_out'.aircraft_family) < load_out'.rule_set_id
              /\ Newest(rule_sets', load_out'.aircraft_family) = load_out'.rule_set_id
        /\ load_out'.upsert /\ load_out'.matched =>
              /\ Len(rule_sets') = Len(rule_sets)
              /\ \A f \in AllFamilies : Newest(rule_sets', f) = Newest(rule_sets, f)

\* C10: without a revision the call uses the rule set of highest id of the
\* family, with a revision only a rule set of exactly that (family,
\* revision); an always-new load makes its new rule set the one used for the
\* family, an upsert load that matches creates none and changes for no
\* family which rule set is used.
C10_RevisionResolution == [](C10_Resolved) /\ [][C10_LoadStep]_vars

\* A call without revision served by the second of two rule sets of its
\* family, the second created by an always-new load.
C10_Witness ==
    /\ Returned /\ queried
    /\ ~RevisionRequested
    /\ Cardinality(Serving) >= 2
    /\ resolved = Some(2)
    /\ load_out.status = "ok" /\ ~load_out.upsert

\* An upsert load that matched, followed by a call with that revision.
C10_WitnessUpsert ==
    /\ Returned /\ queried
    /\ RevisionRequested
    /\ load_out.status = "ok" /\ load_out.upsert /\ load_out.matched
    /\ resolved = Some(load_out.rule_set_id)
    /\ Len(rule_sets) = 1


----------------------------------------------------------------------------
(* C11 *)

\* the rows of a rules table that belong to one rule set, in table order
RulesOf(rules_table, rule_set_id) ==
    SelectSeq(rules_table, LAMBDA r : r.rule_set_id = rule_set_id)

\* the committed database holds the whole effect of the transaction that
\* tx describes: the rule set row with the document's metadata, created or
\* updated; the rules that were under its id wiped when asked; every rule
\* of the document under that id, in document order, after what was kept
WholeLoadCommitted ==
    LET id == tx.rule_set_id
        seeds == tx.seed.rules
        n == Len(seeds)
        mine == RulesOf(rules, id)
        was == RulesOf(tx.before.rules, id)
        kept == IF tx.mode.upsert /\ tx.mode.wipe THEN <<>> ELSE was
    IN  /\ id \in 1..Len(rule_sets)
        /\ Len(rule_sets) = Len(tx.before.rule_sets) + (IF tx.matched THEN 0 ELSE 1)
        /\ rule_sets[id].id = id
        /\ rule_sets[id].name = tx.seed.rs.name
        /\ rule_sets[id].aircraft_family = tx.seed.rs.aircraft_family
        /\ rule_sets[id].revision = tx.seed.rs.revision
        /\ rule_sets[id].effective_date = tx.seed.rs.effective_date
        /\ rule_sets[id].source = tx.seed.rs.source
        /\ Len(mine) = Len(kept) + n
        /\ SubSeq(mine, 1, Len(kept)) = kept
        /\ \A i \in 1..n :
              mine[Len(kept) + i] = RuleRow(seeds[i], mine[Len(kept) + i].id, id)

\* C11: a seeder run is all or nothing.  When it committed, the rule set
\* row, the wipe when asked for and every rule of the document are in the
\* database; while it is in progress, and after a validation failure or a
\* storage failure at any statement, rule_sets and rules are exactly as they
\* were before the run.
C11_AllOrNothing ==
    /\ tx.status \in {"open", "rolled_back", "rejected"} => Committed = tx.before
    /\ tx.status = "committed" => WholeLoadCommitted

\* A run with wipe that failed after its DELETE and one of its INSERTs, on a
\* database that held rules under the matched rule set.
C11_Witness ==
    /\ tx.status = "rolled_back"
    /\ tx.mode.upsert /\ tx.mode.wipe
    /\ tx.step = "insert" /\ tx.written >= 1 /\ tx.written < Len(tx.seed.rules)
    /\ tx.before.rules # <<>>
    /\ Committed = tx.before

\* A committed append to a rule set that held rules.
C11_WitnessCommitted ==
    /\ tx.status = "committed"
    /\ tx.matched /\ ~tx.mode.wipe
    /\ Len(RulesOf(rules, tx.rule_set_id)) = 2 * Len(tx.seed.rules)

----------------------------------------------------------------------------
(* C12 *)

\* ids of the rows of a rules table that the call in progress selects under
\* the rule set id it resolved
SelectedFrom(rules_table, rule_set_id, ctx) ==
    {rules_table[i].id : i \in
        {j \in 1..Len(rules_table) :
            RowSelected(rules_table[j], rule_set_id,
                        Val(_get(ctx, <<"damage", "type">>)),
                        Val(_get(ctx, <<"location", "zone">>)),
                        Val(_get(ctx, <<"damage", "structure">>)),
                        ContextSide(ctx), PressI(ctx))}}

\* the database as it was before the seeder run in progress, or as the last
\* finished run left it
Settled == IF TxOpen THEN tx.before ELSE Committed

\* the two SELECTs of a call read settled data only: the rule set id is one
\* of a settled rule set, and the rows fetched are all the selected rows of
\* a settled rules table and no others
C12_ReadStep ==
    /\ pc = "idle" /\ pc' = "resolved" =>
          \E i \in 1..Len(Settled.rule_sets) :
              /\ Some(Settled.rule_sets[i].id) = resolved'
              /\ Settled.rule_sets[i].aircraft_family = request'.aircraft_family
    /\ pc = "resolved" /\ pc' = "returned" =>
          /\ {candidates'[i] : i \in 1..Len(candidates')}
                = SelectedFrom(Settled.rules, Val(resolved), request.ctx)
          /\ Len(candidates')
                = Cardinality(SelectedFrom(Settled.rules, Val(resolved), request.ctx))
          /\ result' = Some(FetchAndScan(Settled.rules, Val(resolved), request.ctx).result)

\* C12: a call that runs while the seeder is loading computes its result from
\* the complete rules of its rule set as they were before the load or as they
\* are after it: never from a rule set row without its rules, from a wiped
\* rule set not yet refilled, or from a prefix of the document's rules.
C12_NoPartialRead == [][C12_ReadStep]_vars

\* a call has returned while a load is in progress whose work so far would
\* have given it other rows
C12_Witness ==
    /\ pc = "returned" /\ resolved # None
    /\ TxOpen /\ tx.step = "insert"
    /\ tx.next > 1 /\ tx.next <= Len(tx.seed.rules)
    /\ candidates # <<>>
    /\ {candidates[i] : i \in 1..Len(candidates)}
          = SelectedFrom(tx.before.rules, Val(resolved), request.ctx)
    /\ {candidates[i] : i \in 1..Len(candidates)}
          # SelectedFrom(tx.rules, Val(resolved), request.ctx)

\* a call has resolved its rule set and not yet fetched, while a load with
\* wipe has deleted the rules of that rule set and not committed
C12_WitnessWiped ==
    /\ pc = "resolved"
    /\ TxOpen /\ tx.step = "insert" /\ tx.next = 1
    /\ tx.mode.upsert /\ tx.mode.wipe /\ tx.matched
    /\ resolved = Some(tx.rule_set_id)
    /\ RulesOf(tx.rules, tx.rule_set_id) = <<>>
    /\ RulesOf(rules, tx.rule_set_id) # <<>>

----------------------------------------------------------------------------
(* C13 *)

UpsertWipeRun == load_out.status = "ok" /\ load_out.upsert /\ load_out.wipe

\* the rows under a rule set id are the rules of a document, in its order:
\* each row is the RuleSeed of its entry
HoldsExactly(rules_table, rule_set_id, doc) ==
    LET mine == RulesOf(rules_table, rule_set_id)
    IN  /\ Len(mine) = Len(doc.rules)
        /\ \A i \in 1..Len(mine) :
              mine[i] = RuleRow(RuleSeedOf(doc.rules[i]), mine[i].id, rule_set_id)

\* C13: after every load of a document in upsert mode with wipe, the first
\* as the repeated ones, the targeted rule set holds exactly the rules of the
\* document and the run reports total = inserted = the number of rules of
\* the document: the count does not grow with repetitions.
C13_UpsertWipeIdempotent ==
    UpsertWipeRun =>
        LET doc == DocNamed(load_out.name)
        IN  /\ load_out.inserted = Len(doc.rules)
            /\ load_out.total = load_out.inserted
            /\ CountRules(rules, load_out.rule_set_id) = Len(doc.rules)
            /\ HoldsExactly(rules, load_out.rule_set_id, doc)
            /\ rule_sets[load_out.rule_set_id].aircraft_family = load_out.aircraft_family
            /\ rule_sets[load_out.rule_set_id].revision = load_out.revision

\* The same document loaded three times in a row with upsert and wipe.
C13_Witness ==
    /\ UpsertWipeRun
    /\ load_out.repeats = 3
    /\ load_out.matched
    /\ load_out.total = 3

\* A load with upsert and wipe onto a rule set that another document of the
\* same family and revision had filled.
C13_WitnessOtherDocument ==
    /\ UpsertWipeRun
    /\ load_out.repeats = 1
    /\ load_out.matched
    /\ Len(rule_sets) = 1

----------------------------------------------------------------------------
(* C14 *)

\* positions of the rule sets of a table with the given family and revision
SameFamilyRevision(rs_table, family, revision) ==
    {i \in 1..Len(rs_table) :
        rs_table[i].aircraft_family = family /\ rs_table[i].revision = revision}

\* a committed run in upsert mode, seen as a step
C14_UpsertStep ==
    loads' = loads + 1 /\ load_out'.status = "ok" /\ load_out'.upsert =>
        LET id == load_out'.rule_set_id
            doc == load_seed(DocNamed(load_out'.name))
            n == Len(doc.rules)
            found == SameFamilyRevision(rule_sets, doc.rs.aircraft_family, doc.rs.revision)
            others == (1..Len(rule_sets)) \ {id}
        IN  /\ \A j \in others :
                  /\ rule_sets'[j] = rule_sets[j]
                  /\ RulesOf(rules', j) = RulesOf(rules, j)
            /\ rule_sets'[id].id = id
            /\ rule_sets'[id].aircraft_family = doc.rs.aircraft_family
            /\ rule_sets'[id].revision = doc.rs.revision
            /\ rule_sets'[id].name = doc.rs.name
            /\ rule_sets'[id].effective_date = doc.rs.effective_date
            /\ rule_sets'[id].source = doc.rs.source
            /\ IF found # {}
               THEN /\ load_out'.matched
                    /\ id \in found
                    /\ Len(rule_sets') = Len(rule_sets)
                    /\ ~load_out'.wipe =>
                          /\ Len(RulesOf(rules', id)) = Len(RulesOf(rules, id)) + n
                          /\ SubSeq(RulesOf(rules', id), 1, Len(RulesOf(rules, id)))
                                = RulesOf(rules, id)
                          /\ \A i \in 1..n :
                                LET row == RulesOf(rules', id)[Len(RulesOf(rules, id)) + i]
                                IN  row = RuleRow(doc.rules[i], row.id, id)
                          /\ load_out'.inserted = n
                          /\ load_out'.total = CountRules(rules, id) + n
               ELSE /\ ~load_out'.matched
                    /\ id = Len(rule_sets) + 1
                    /\ Len(rule_sets') = Len(rule_sets) + 1

\* C14: an upsert load that finds a rule set of the document's family and
\* revision reuses its id, creates no rule set, changes only name,
\* effective_date and source of that row and leaves every other rule set and
\* its rules as they were; without wipe it keeps the rules under that id and
\* appends the document's, so total = previous count + document rule count.
\* When none matches it creates a new rule set.
C14_UpsertFrame == [][C14_UpsertStep]_vars

\* An upsert without wipe has matched one of two rule sets and doubled its
\* rules, the other rule set being of another revision.
C14_Witness ==
    /\ load_out.status = "ok" /\ load_out.upsert /\ ~load_out.wipe
    /\ load_out.matched
    /\ Len(rule_sets) = 2
    /\ \E j \in 1..2 : rule_sets[j].revision # load_out.revision
                       /\ RulesOf(rules, j) # <<>>
    /\ load_out.total = 2 * load_out.inserted
    /\ rule_sets[load_out.rule_set_id].name = load_out.name

\* An upsert that found no rule set of its revision and created the second.
C14_WitnessCreated ==
    /\ load_out.status = "ok" /\ load_out.upsert /\ ~load_out.matched
    /\ load_out.rule_set_id = 2 /\ Len(rule_sets) = 2

----------------------------------------------------------------------------
(* C15 *)

\* a value that is a string, a value that is an object
IsString(val) == val # None /\ Len(val) = 1
IsObject(val) == val # None /\ Len(val) = 1

\* the rule entry has damage_type, structure and structure_zone, each a
\* string, and conditions, limits and actions, where given, are objects
EntryWellFormed(robj) ==
    /\ \A k \in RequiredRuleKeys : k \in DOMAIN robj /\ IsString(robj[k])
    /\ \A k \in {"conditions", "limits", "actions"} :
          k \in DOMAIN robj => IsObject(robj[k])

\* the stored rule has the classification strings of some entry of a
\* document
TakenFromSeed(r) ==
    \E doc \in SeedingDocs : \E i \in 1..Len(doc.rules) :
        /\ RequiredRuleKeys \subseteq DOMAIN doc.rules[i]
        /\ doc.rules[i].damage_type = Some(r.damage_type)
        /\ doc.rules[i].structure = Some(r.structure)
        /\ doc.rules[i].structure_zone = Some(r.structure_zone)

\* C15: a seed document with a rule entry that lacks damage_type, structure
\* or structure_zone, or gives one of them a value that is not a string, or
\* gives conditions, limits or actions a value that is not an object, is
\* rejected with a validation error and nothing of it is written; so every
\* stored rule has for damage_type, structure and structure_zone the strings
\* of its seed entry.
C15_IllFormedSeedRejected ==
    /\ load_out.status = "ok" =>
          \A i \in 1..Len(DocNamed(load_out.name).rules) :
              EntryWellFormed(DocNamed(load_out.name).rules[i])
    /\ \A i \in 1..Len(rules) : TakenFromSeed(rules[i])

----------------------------------------------------------------------------
(* C16 *)

ActionsOf(r) == JsonLoads(r.actions_json, NoActions)
LacksDisposition(actions) == actions.disposition = None

\* the documents whose entries the seeder has been given in some run
AllDocs == SeedDocs \cup SeedingDocs \cup
           {EngineDoc(NoConditions, l, a) : l \in EngineLimits, a \in EngineActions}

\* the actions of a rule entry, {} when it gives none
EntryActions(robj) == IF "actions" \in DOMAIN robj THEN Val(robj.actions) ELSE NoActions

\* C16: a rule whose actions have no disposition counts as having the
\* disposition ENGINEERING_REVIEW.  The loader stores that disposition for
\* every entry that omits it; and a call that reports a rule whose stored
\* actions lack a disposition (actions_json NULL, empty or {} included)
\* returns ENGINEERING_REVIEW, when the rule fails its limits and when it
\* passes them.
C16_DispositionDefaultsToReview ==
    /\ \A doc \in AllDocs :
          load_seed(doc).ok =>
              \A i \in 1..Len(doc.rules) :
                  LacksDisposition(EntryActions(doc.rules[i])) =>
                      load_seed(doc).rules[i].actions_json
                          = JsonDumps([disposition |-> Some(ER)])
    /\ Returned /\ Res.rule_id # None =>
          (LacksDisposition(ActionsOf(RuleById(Val(Res.rule_id))))
              => Res.disposition = ER)

----------------------------------------------------------------------------
(* The evaluators, as the properties speak of them *)

\* the value at a dotted path of a context; absent when a key on the way is
\* missing (the contexts are two levels deep, so a longer path ends on a
\* value that has no keys)
Resolves(ctx, path) ==
    IF Len(path) = 2 THEN Field(ctx, path[1], path[2]) ELSE None

OrderingOps == {"<", "<=", ">", ">="}

Compares(op, a, b) ==
    CASE op = "<" -> a < b
      [] op = "<=" -> a <= b
      [] op = ">" -> a > b
      [] op = ">=" -> a >= b

\* a clause evaluates true
ClauseHolds(cl, ctx) ==
    LET v == Resolves(ctx, cl.field)
    IN  IF cl.op \in OrderingOps
        THEN v # None /\ Compares(cl.op, Val(v), Val(cl.value))
        ELSE IF cl.op = "==" THEN v = cl.value
        ELSE IF cl.op = "!=" THEN v # cl.value
        ELSE FALSE

\* the Condition Evaluator accepts
Accepts(conditions, ctx) ==
    /\ ~(/\ conditions.requires_no_visible_crack = Some(TRUE)
         /\ Resolves(ctx, <<"damage", "visible_crack">>) = Some(TRUE))
    /\ \A i \in 1..Len(conditions.deny_if) : ~ClauseHolds(conditions.deny_if[i], ctx)
    /\ \A i \in 1..Len(conditions.allow_if) : ClauseHolds(conditions.allow_if[i], ctx)

\* an ordering clause whose field is absent from the context
OrderingOnAbsent(cl, ctx) == cl.op \in OrderingOps /\ Resolves(ctx, cl.field) = None

DiameterViolated(limits, ctx) ==
    /\ limits.max_diameter_mm # None
    /\ Field(ctx, "damage", "diameter_mm") # None
    /\ Val(Field(ctx, "damage", "diameter_mm")) > Val(limits.max_diameter_mm)

DepthViolated(limits, ctx) ==
    /\ limits.max_depth_mm # None
    /\ Field(ctx, "damage", "depth_mm") # None
    /\ Val(Field(ctx, "damage", "depth_mm")) > Val(limits.max_depth_mm)

RatioViolated(limits, ctx) ==
    /\ limits.max_depth_to_thickness_ratio # None
    /\ \/ Field(ctx, "damage", "depth_to_thickness_ratio") = None
       \/ Val(Field(ctx, "damage", "depth_to_thickness_ratio"))
             > Val(limits.max_depth_to_thickness_ratio)

\* what the reasons of a failing rule say, one entry per violated limit in
\* the order diameter, depth, ratio
ViolationTags(limits, ctx) ==
    (IF DiameterViolated(limits, ctx) THEN <<"Diameter > limit">> ELSE <<>>)
    \o (IF DepthViolated(limits, ctx) THEN <<"Depth > limit">> ELSE <<>>)
    \o (IF ~RatioViolated(limits, ctx) THEN <<>>
        ELSE IF Field(ctx, "damage", "depth_to_thickness_ratio") = None
        THEN <<NotProvidedReason[1]>>
        ELSE <<"Ratio > limit">>)

RejectionTags == {"Condition failed: visible crack present.", "Denied by condition",
                  "Allow-if condition not met"}

\* the fetched rows, those the range tests keep, and those of them that
\* the Condition Evaluator rejects
Fetched == {r \in AllRules : r.id \in CandidateIds}
Surviving == {r \in Fetched : InEnvelope(r, Ctx)}
Rejected == {r \in Surviving : ~Accepts(ConditionsOf(r), Ctx)}

----------------------------------------------------------------------------
(* C18 *)

\* C18: a rule the Condition Evaluator rejects is skipped: it is not the
\* rule reported, as PASS or as FAIL, its limits are not evaluated, and the
\* reasons of its rejection are in no result; when every fetched rule that
\* the range tests keep is rejected, the result is NO_MATCH (no rule id,
\* passed = false), whatever the limits of the rejected rules would give.
C18_RejectedRulesAreSkipped ==
    Returned /\ candidates # <<>> =>
        /\ \A r \in Rejected :
              /\ Res.rule_id # Some(r.id)
              /\ TraceStep(r.id) \in {"conditions", "none"}
        /\ \A k \in 1..Len(Res.reasons) : Res.reasons[k][1] \notin RejectionTags
        /\ Surviving \subseteq Rejected =>
              /\ Res.rule_id = None
              /\ ~Res.passed
              /\ Res = NoApplicableRuleResult

\* NO_MATCH with every fetched rule rejected, one of them a rule whose limits
\* the context is within.
C18_Witness ==
    /\ Returned /\ Res = NoApplicableRuleResult
    /\ Cardinality(Rejected) >= 2
    /\ \E a \in Rejected : ViolationTags(LimitsOf(a), Ctx) = <<>>

\* NO_MATCH with a rejected rule whose limits the context exceeds, and a rule
\* the range tests dropped.
C18_WitnessWouldFail ==
    /\ Returned /\ Res = NoApplicableRuleResult
    /\ \E a \in Rejected : ViolationTags(LimitsOf(a), Ctx) # <<>>
    /\ Fetched \ Surviving # {}

\* A rule reported as FAIL after a rule of higher priority was rejected.
C18_WitnessLater ==
    /\ Returned /\ Res.rule_id # None /\ ~Res.passed
    /\ \E a \in Rejected : a.priority > RuleById(Val(Res.rule_id)).priority
                           /\ ViolationTags(LimitsOf(a), Ctx) # <<>>

----------------------------------------------------------------------------
(* C19 *)

\* C19: a rule the range tests keep gets past the Condition Evaluator if and
\* only if (requires_no_visible_crack is not true or damage.visible_crack is
\* not true) and no deny_if clause holds and every allow_if clause holds; an
\* ordering clause on an absent field, and a clause with an unknown
\* operator, do not hold, so the first never denies under deny_if and always
\* rejects under allow_if.
C19_ConditionEvaluator ==
    Returned =>
        \A i \in 1..Len(trace) :
            LET conditions == ConditionsOf(RuleById(trace[i].id))
            IN  trace[i].step # "range" =>
                  /\ trace[i].step # "conditions" <=> Accepts(conditions, Ctx)
                  /\ (\E k \in 1..Len(conditions.allow_if) :
                          OrderingOnAbsent(conditions.allow_if[k], Ctx))
                        => trace[i].step = "conditions"
                  /\ (/\ conditions.requires_no_visible_crack = None
                      /\ conditions.allow_if = <<>>
                      /\ \A k \in 1..Len(conditions.deny_if) :
                            OrderingOnAbsent(conditions.deny_if[k], Ctx))
                        => trace[i].step # "conditions"

\* A rule whose only condition is a deny_if "<" clause on a field the
\* context lacks got past the Condition Evaluator.
C19_Witness ==
    /\ Returned
    /\ \E i \in 1..Len(trace) :
          LET conditions == ConditionsOf(RuleById(trace[i].id))
          IN  /\ trace[i].step \in {"pass", "fail"}
              /\ Len(conditions.deny_if) = 1
              /\ conditions.deny_if[1].op = "<"
              /\ conditions.deny_if[1].field = <<"damage", "depth_mm">>
              /\ Field(Ctx, "damage", "depth_mm") = None

\* A rule with an allow_if "<=" clause on a field the context lacks was
\* rejected; a rule with an allow_if clause of unknown operator was rejected.
C19_WitnessAllow ==
    /\ Returned
    /\ \E i \in 1..Len(trace) :
          LET conditions == ConditionsOf(RuleById(trace[i].id))
          IN  /\ trace[i].step = "conditions"
              /\ Len(conditions.allow_if) = 1
              /\ conditions.allow_if[1].op = "<="
              /\ OrderingOnAbsent(conditions.allow_if[1], Ctx)

C19_WitnessUnknownOperator ==
    /\ Returned
    /\ \E i \in 1..Len(trace) :
          LET conditions == ConditionsOf(RuleById(trace[i].id))
          IN  /\ trace[i].step = "conditions"
              /\ Len(conditions.allow_if) = 1
              /\ conditions.allow_if[1].op \notin OrderingOps \cup {"==", "!="}
              /\ Resolves(Ctx, conditions.allow_if[1].field) # None

----------------------------------------------------------------------------
(* C20 *)

\* C20: a rule that reaches the Limit Evaluator passes if and only if none of
\* its configured limits is violated, a value equal to its limit being no
\* violation; the reasons of a FAIL hold exactly one entry per violated
\* limit, in the order diameter, depth, ratio: all the violations and not
\* only the first.
C20_LimitEvaluator ==
    Returned =>
        /\ \A i \in 1..Len(trace) :
              trace[i].step \in {"pass", "fail"} =>
                  (trace[i].step = "pass"
                      <=> ViolationTags(LimitsOf(RuleById(trace[i].id)), Ctx) = <<>>)
        /\ Res.rule_id # None /\ ~Res.passed =>
              [k \in 1..Len(Res.reasons) |-> Res.reasons[k][1]]
                  = ViolationTags(LimitsOf(RuleById(Val(Res.rule_id))), Ctx)
        /\ Res.rule_id # None /\ Res.passed =>
              Res.reasons = << <<"Within limits.">> >>

\* A FAIL that reports three violations.
C20_Witness ==
    /\ Returned /\ Res.rule_id # None /\ ~Res.passed
    /\ Len(Res.reasons) = 3
    /\ Res.reasons[1][1] = "Diameter > limit"
    /\ Res.reasons[2][1] = "Depth > limit"
    /\ Res.reasons[3][1] = "Ratio > limit"

\* A PASS with diameter, depth and ratio each equal to its limit.
C20_WitnessEqual ==
    /\ Returned /\ Res.rule_id # None /\ Res.passed
    /\ LET limits == LimitsOf(RuleById(Val(Res.rule_id)))
       IN  /\ limits.max_diameter_mm = Field(Ctx, "damage", "diameter_mm")
           /\ limits.max_depth_mm = Field(Ctx, "damage", "depth_mm")
           /\ limits.max_depth_to_thickness_ratio
                 = Field(Ctx, "damage", "depth_to_thickness_ratio")
           /\ limits.max_diameter_mm # None /\ limits.max_depth_mm # None
           /\ limits.max_depth_to_thickness_ratio # None

----------------------------------------------------------------------------
(* C21 *)

\* a stored column read as the lenient parse reads it: an object as it is,
\* anything else as {}
Lenient(col) == IF col.json = "object" THEN col ELSE EmptyJson

LenientRules ==
    [i \in DOMAIN rules |->
        [rules[i] EXCEPT !.conditions_json = Lenient(@),
                         !.limits_json = Lenient(@),
                         !.actions_json = Lenient(@)]]

\* the rows of the store that hold a column a JSON object cannot be read from
IllFormedRows ==
    {r \in AllRules : \E col \in JsonColumns : r[col].json \in {"malformed", "value"}}

\* C21: a stored conditions_json, limits_json or actions_json that cannot
\* be read as a JSON object counts as an empty object: no call is left by
\* an exception, and the result returned is the one the store gives with
\* every such column, and every empty or NULL one, read as {}.
C21_StoredDocumentsReadLeniently ==
    /\ pc # "raised"
    /\ Returned =>
          Res = assess_damage(rule_sets, LenientRules, request.aircraft_family,
                              Ctx, request.revision).result

\* The part on empty and NULL columns: with no ill-formed row in the store
\* no call raises and the result is that of the columns read as {}.
C21_EmptyReadAsEmpty ==
    IllFormedRows = {} =>
        /\ pc # "raised"
        /\ Returned =>
              Res = assess_damage(rule_sets, LenientRules, request.aircraft_family,
                                  Ctx, request.revision).result

\* a call returned a result computed from a row with an empty column
C21_WitnessEmpty ==
    /\ Returned /\ Res.rule_id # None /\ IllFormedRows = {}
    /\ \E col \in JsonColumns : RuleById(Val(Res.rule_id))[col].json = "empty"

\* a call returned although a row holds an ill-formed column: the scan
\* did not get to the row, or did not use the value
C21_WitnessNotReached ==
    /\ Returned /\ IllFormedRows # {}

----------------------------------------------------------------------------
(* C22 *)

\* the last seeder run was an upsert that committed
UpsertCommitted == load_out.status = "ok" /\ load_out.upsert

\* the call names the family and the revision of the last seeder run
AsksForLoaded ==
    /\ request.aircraft_family = load_out.aircraft_family
    /\ request.revision = Some(load_out.revision)

\* the rule sets of the family and revision of the last seeder run
SameKeyRuleSets ==
    {i \in 1..Len(rule_sets) :
        /\ rule_sets[i].aircraft_family = load_out.aircraft_family
        /\ rule_sets[i].revision = load_out.revision}

\* C22: after an upsert run for (family F, revision R) committed, whatever
\* runs went before, a call for F and R is computed from the rule set that
\* run wrote to: the rule set the upsert matched and the rule set the call
\* resolves are the same one.
C22_EvaluateReadsLoadedRuleSet ==
    Returned /\ UpsertCommitted /\ AsksForLoaded /\ queried =>
        /\ resolved = Some(load_out.rule_set_id)
        /\ Res = FetchAndScan(rules, load_out.rule_set_id, Ctx).result

\* With one rule set of the family and revision the two lookups agree.
C22_SingleRuleSetAgrees ==
    Returned /\ UpsertCommitted /\ AsksForLoaded /\ queried
      /\ Cardinality(SameKeyRuleSets) = 1 =>
        resolved = Some(load_out.rule_set_id)

\* a call for the family and revision of an upsert run that matched the
\* only rule set of that key
C22_WitnessSingle ==
    /\ Returned /\ UpsertCommitted /\ AsksForLoaded /\ queried
    /\ load_out.matched /\ Cardinality(SameKeyRuleSets) = 1

\* a call for the family and revision of an upsert run that matched the
\* newest of two rule sets of that key
C22_WitnessNewest ==
    /\ Returned /\ UpsertCommitted /\ AsksForLoaded /\ queried
    /\ load_out.matched /\ Cardinality(SameKeyRuleSets) = 2
    /\ resolved = Some(load_out.rule_set_id)

----------------------------------------------------------------------------
(* C23 *)

\* the limits configure a diameter or a depth limit and no ratio limit
OnlyDiameterOrDepth(limits) ==
    /\ limits.max_depth_to_thickness_ratio = None
    /\ limits.max_diameter_mm # None \/ limits.max_depth_mm # None

\* the context supplies neither the diameter nor the depth
NeitherMeasured(ctx) ==
    /\ Field(ctx, "damage", "diameter_mm") = None
    /\ Field(ctx, "damage", "depth_mm") = None

\* C23: a max_diameter_mm or max_depth_mm limit is skipped when the context
\* lacks the measurement, unlike the ratio limit.  A rule whose only
\* configured limits are these two passes its limits for a context that
\* supplies neither measurement, and is then returned as PASS with the
\* disposition of the rule; a rule with a ratio limit fails when the
\* context lacks the ratio.
C23_AbsentMeasurementSkipsLimit ==
    Returned =>
        \A i \in 1..Len(trace) :
            LET r == RuleById(trace[i].id)
                limits == LimitsOf(r)
            IN  trace[i].step \in {"pass", "fail"} =>
                  /\ OnlyDiameterOrDepth(limits) /\ NeitherMeasured(Ctx) =>
                        /\ trace[i].step = "pass"
                        /\ Res.passed /\ Res.rule_id = Some(r.id)
                        /\ ~LacksDisposition(ActionsOf(r)) =>
                              Some(Res.disposition) = ActionsOf(r).disposition
                  /\ (/\ limits.max_depth_to_thickness_ratio # None
                      /\ Field(Ctx, "damage", "depth_to_thickness_ratio") = None)
                        => trace[i].step = "fail"

\* A rule with a diameter and a depth limit and no ratio limit was returned
\* as PASS, with its disposition, for a context without diameter and depth.
C23_Witness ==
    /\ Returned /\ Res.rule_id # None /\ Res.passed
    /\ NeitherMeasured(Ctx)
    /\ LET r == RuleById(Val(Res.rule_id))
       IN  /\ LimitsOf(r).max_diameter_mm # None /\ LimitsOf(r).max_depth_mm # None
           /\ LimitsOf(r).max_depth_to_thickness_ratio = None
           /\ Some(Res.disposition) = ActionsOf(r).disposition

\* A rule with a ratio limit failed for a context without diameter, depth
\* and ratio: the one reason is that the ratio was not provided.
C23_WitnessRatio ==
    /\ Returned /\ Res.rule_id # None /\ ~Res.passed
    /\ NeitherMeasured(Ctx)
    /\ Field(Ctx, "damage", "depth_to_thickness_ratio") = None
    /\ LimitsOf(RuleById(Val(Res.rule_id))).max_diameter_mm # None
    /\ Res.reasons = <<NotProvidedReason>>

====
